---- MODULE Spec2Model ----
(***************************************************************************)
(* A model of the rrule package: the BY-part expansions (expansions.go),   *)
(* the line parser (parse.go), and the occurrence generator and the        *)
(* recurrence combiner that call them.                                     *)
(*                                                                         *)
(* An instant is the number of seconds since 2018-01-01T00:00:00, a        *)
(* Monday.  Date(...) is Go's time.Date: it normalises out-of-range        *)
(* months, days, hours, minutes and seconds.  Sub-second parts and         *)
(* locations are carried unchanged by every operation modelled here and    *)
(* are left out.                                                           *)
(***************************************************************************)
EXTENDS Integers, Sequences, FiniteSets, TLC

\* gen: the occurrence generator; iters: the outer iterations it has run;
\* comb: the combiner; prs: ParseRRule; rec: ParseRecurrence; mexp: the
\* month expansion.
VARIABLES gen, iters, comb, prs, rec, mexp

vars == <<gen, iters, comb, prs, rec, mexp>>

\* A component that is not running in the specification at hand.
Idle == [pc |-> "idle"]

----------------------------------------------------------------------------
(* Calendar arithmetic: Go's time package *)

SecondsPerDay == 86400

\* Days from 1970-01-01 to 2018-01-01, the model's epoch.
EpochDays == 17532

\* Number of days from the epoch to the first day of month m (1..12) of year y.
DaysFromCivil(y, m) ==
    LET yy  == IF m <= 2 THEN y - 1 ELSE y
        era == yy \div 400
        yoe == yy - era * 400
        mp  == IF m > 2 THEN m - 3 ELSE m + 9
        doy == (153 * mp + 2) \div 5
        doe == yoe * 365 + yoe \div 4 - yoe \div 100 + doy
    IN  era * 146097 + doe - 719468 - EpochDays

\* time.Date: month, day and clock values outside their ranges are normalised.
Date(y, mo, d, h, mi, s) ==
    LET m0 == mo - 1
        ny == y + (m0 \div 12)
        nm == (m0 % 12) + 1
    IN  (DaysFromCivil(ny, nm) + (d - 1)) * SecondsPerDay + h * 3600 + mi * 60 + s

DayNumber(t) == t \div SecondsPerDay

\* The civil date of a day, from the day's position in its 400-year era: the
\* year of the era yoe, the day of the year (counted from March 1) doy, and the
\* month (counted from March) mp.
civilOfMonth(y0, doy, mp) ==
    LET m == IF mp < 10 THEN mp + 3 ELSE mp - 9
    IN  <<y0 + (IF m <= 2 THEN 1 ELSE 0), m, doy - (153 * mp + 2) \div 5 + 1>>

civilOfYearDay(y0, doy) == civilOfMonth(y0, doy, (5 * doy + 2) \div 153)

civilOfYear(era, doe, yoe) ==
    civilOfYearDay(yoe + era * 400, doe - (365 * yoe + yoe \div 4 - yoe \div 100))

civilOfEraDay(era, doe) ==
    civilOfYear(era, doe, (doe - doe \div 1460 + doe \div 36524 - doe \div 146096) \div 365)

civilOfEra(zz, era) == civilOfEraDay(era, zz - era * 146097)

civilOfShifted(zz) == civilOfEra(zz, zz \div 146097)

\* <<year, month, day>> of day number z.
CivilFromDays(z) == civilOfShifted(z + EpochDays + 719468)

Year(t) == CivilFromDays(DayNumber(t))[1]

Month(t) == CivilFromDays(DayNumber(t))[2]

Day(t) == CivilFromDays(DayNumber(t))[3]

Hour(t) == (t % SecondsPerDay) \div 3600

Minute(t) == (t % 3600) \div 60

Second(t) == t % 60

\* time.Weekday: Sunday = 0 .. Saturday = 6.  Day 0 of the model is a Monday.
Weekday(t) == (DayNumber(t) + 1) % 7

\* t.AddDate(years, months, days)
AddDate(t, years, months, days) ==
    Date(Year(t) + years, Month(t) + months, Day(t) + days, Hour(t), Minute(t), Second(t))

\* Length of month m of year y, and of year y.
DaysIn(y, m) == DaysFromCivil(y + (m \div 12), (m % 12) + 1) - DaysFromCivil(y, m)

DaysInYear(y) == DaysFromCivil(y + 1, 1) - DaysFromCivil(y, 1)

\* Day of the year of t, 1 = January 1.
YearDay(t) == DayNumber(t) - DaysFromCivil(Year(t), 1) + 1

----------------------------------------------------------------------------
(* Sequences of instants *)

SeqRange(s) == {s[i] : i \in 1..Len(s)}

MinOf(S) == CHOOSE x \in S : \A y \in S : x <= y

RECURSIVE SortedSeq(_)
\* The members of a finite set of instants in ascending order.
SortedSeq(S) ==
    IF S = {} THEN <<>>
    ELSE LET m == MinOf(S) IN <<m>> \o SortedSeq(S \ {m})

RECURSIVE Concat(_)
\* The concatenation of a sequence of sequences.
Concat(ss) == IF Len(ss) = 0 THEN <<>> ELSE Head(ss) \o Concat(Tail(ss))

\* The nested loops of the expansions, for t of tt (outer) and v of vs (inner),
\* run Len(tt) * Len(vs) times: at the p-th run t is Outer(tt, vs, p) and v is
\* Inner(vs, p).
Outer(tt, vs, p) == tt[((p - 1) \div Len(vs)) + 1]

Inner(vs, p) == vs[((p - 1) % Len(vs)) + 1]

----------------------------------------------------------------------------
(* expansions.go *)

OmitInvalid == "OmitInvalid"

PrevInvalid == "PrevInvalid"

NextInvalid == "NextInvalid"

InvalidBehaviors == {OmitInvalid, PrevInvalid, NextInvalid}

\* The smallest non-negative shift in days that places t on weekday wd.
forwardToWeekday(t, wd) == t + ((wd - Weekday(t)) % 7) * SecondsPerDay

\* The largest non-positive shift in days that places t on weekday wd.
backToWeekday(t, wd) == t - ((Weekday(t) - wd) % 7) * SecondsPerDay

setSecond(t, s) == Date(Year(t), Month(t), Day(t), Hour(t), Minute(t), s)

expandBySeconds(tt, seconds) ==
    IF Len(seconds) = 0 THEN tt
    ELSE [p \in 1..(Len(tt) * Len(seconds)) |->
            setSecond(Outer(tt, seconds, p), Inner(seconds, p))]

setMinute(t, m) == Date(Year(t), Month(t), Day(t), Hour(t), m, Second(t))

expandByMinutes(tt, minutes) ==
    IF Len(minutes) = 0 THEN tt
    ELSE [p \in 1..(Len(tt) * Len(minutes)) |->
            setMinute(Outer(tt, minutes, p), Inner(minutes, p))]

setHour(t, h) == Date(Year(t), Month(t), Day(t), h, Minute(t), Second(t))

expandByHours(tt, hours) ==
    IF Len(hours) = 0 THEN tt
    ELSE [p \in 1..(Len(tt) * Len(hours)) |->
            setHour(Outer(tt, hours, p), Inner(hours, p))]

\* As expandByWeekdays, but taking each weekday forward from t itself instead
\* of from the start of t's week.
expandByWeekdaysFromInstant(tt, weekStart, weekdays) ==
    IF Len(weekdays) = 0 THEN tt
    ELSE [p \in 1..(Len(tt) * Len(weekdays)) |->
            forwardToWeekday(Outer(tt, weekdays, p), Inner(weekdays, p).WD)]

expandByWeekdays(tt, weekStart, weekdays) ==
    LET inWeek(t, wd) == forwardToWeekday(backToWeekday(t, weekStart), wd.WD)
    IN  IF Len(weekdays) = 0 THEN tt
        ELSE [p \in 1..(Len(tt) * Len(weekdays)) |->
                inWeek(Outer(tt, weekdays, p), Inner(weekdays, p))]

setMonthDay(t, md) == Date(Year(t), Month(t), md, Hour(t), Minute(t), Second(t))

expandByMonthDays(tt, monthdays) ==
    IF Len(monthdays) = 0 THEN tt
    ELSE [p \in 1..(Len(tt) * Len(monthdays)) |->
            setMonthDay(Outer(tt, monthdays, p), Inner(monthdays, p))]

addYearDay(t, yd) ==
    AddDate(Date(Year(t), 1, 1, Hour(t), Minute(t), Second(t)), 0, 0, yd)

expandByYearDays(tt, yeardays) ==
    IF Len(yeardays) = 0 THEN tt
    ELSE [p \in 1..(Len(tt) * Len(yeardays)) |->
            addYearDay(Outer(tt, yeardays, p), Inner(yeardays, p))]

addWeekNumber(t, w) ==
    AddDate(forwardToWeekday(Date(Year(t), 1, 1, Hour(t), Minute(t), Second(t)), Weekday(t)),
            0, 0, (w - 1) * 7)

expandByWeekNumbers(tt, weekStarts, weekNumbers) ==
    IF Len(weekNumbers) = 0 THEN tt
    ELSE [p \in 1..(Len(tt) * Len(weekNumbers)) |->
            addWeekNumber(Outer(tt, weekNumbers, p), Inner(weekNumbers, p))]

\* The candidates one instant t gives for one listed month m: one or none.
setMonth(t, ib, m) ==
    LET set == Date(Year(t), m, Day(t), Hour(t), Minute(t), Second(t))
    IN  IF Month(set) # m
        THEN CASE ib = PrevInvalid ->
                    <<Date(Year(t), Month(t) + 1, -1, Hour(t), Minute(t), Second(t))>>
               [] ib = NextInvalid ->
                    <<Date(Year(t), Month(t) + 1, 1, Hour(t), Minute(t), Second(t))>>
               [] OTHER -> <<>>
        ELSE <<set>>

expandByMonths(tt, ib, months) ==
    LET one(t, m) == setMonth(t, ib, m)
    IN  IF Len(months) = 0 THEN tt
        ELSE Concat([p \in 1..(Len(tt) * Len(months)) |->
                one(Outer(tt, months, p), Inner(months, p))])

\* Whether t is an occurrence of the qualified weekday q counted within t's
\* month: N = 0 every one, N > 0 the Nth from the start, N < 0 from the end.
inMonthOrdinal(t, q) ==
    /\ Weekday(t) = q.WD
    /\ \/ q.N = 0
       \/ q.N > 0 /\ ((Day(t) - 1) \div 7) + 1 = q.N
       \/ q.N < 0 /\ ((DaysIn(Year(t), Month(t)) - Day(t)) \div 7) + 1 = -q.N

\* The same, counted within t's year.
inYearOrdinal(t, q) ==
    /\ Weekday(t) = q.WD
    /\ \/ q.N = 0
       \/ q.N > 0 /\ ((YearDay(t) - 1) \div 7) + 1 = q.N
       \/ q.N < 0 /\ ((DaysInYear(Year(t)) - YearDay(t)) \div 7) + 1 = -q.N

RECURSIVE SortAsc(_)
\* s in ascending order, equal members kept.
SortAsc(s) ==
    IF Len(s) <= 1 THEN s
    ELSE LET i == CHOOSE i \in 1..Len(s) : \A j \in 1..Len(s) : s[i] <= s[j]
         IN  <<s[i]>> \o SortAsc(SubSeq(s, 1, i - 1) \o SubSeq(s, i + 1, Len(s)))

\* The index a set position p names in a list of n members: 1-based from the
\* start when positive, from the end when negative (-1 the last).
posIndex(p, n) == IF p > 0 THEN p ELSE n + 1 + p

\* The members of the sorted list at the positions of setPos, in order, each
\* once; a position outside the list selects nothing.
project(sorted, setPos) ==
    LET n    == Len(sorted)
        idxs == {posIndex(setPos[k], n) : k \in 1..Len(setPos)} \cap (1..n)
    IN  [k \in 1..Cardinality(idxs) |-> sorted[SortedSeq(idxs)[k]]]

\* Every instant of t's month, at t's clock-of-day, that matches one of the
\* qualified weekdays; with positions given, the sorted matches at them.
weekdaysInMonth(t, weekdays, setPos, ib) ==
    LET dayAt(d) == Date(Year(t), Month(t), d, Hour(t), Minute(t), Second(t))
        days     == [d \in 1..DaysIn(Year(t), Month(t)) |-> dayAt(d)]
        of(q)    == LET hit(x) == inMonthOrdinal(x, q) IN SelectSeq(days, hit)
        found    == Concat([k \in 1..Len(weekdays) |-> of(weekdays[k])])
    IN  IF Len(setPos) = 0 THEN found ELSE project(SortAsc(found), setPos)

\* The same for one qualified weekday within t's year.
weekdaysInYear(t, q, ib) ==
    LET dayAt(d) == Date(Year(t), 1, d, Hour(t), Minute(t), Second(t))
        days     == [d \in 1..DaysInYear(Year(t)) |-> dayAt(d)]
        hit(x)   == inYearOrdinal(x, q)
    IN  SelectSeq(days, hit)

expandMonthByWeekdays(tt, ib, bySetPos, weekdays) ==
    IF Len(weekdays) = 0 THEN tt
    ELSE Concat([i \in 1..Len(tt) |-> weekdaysInMonth(tt[i], weekdays, bySetPos, ib)])

expandYearByWeekdays(tt, ib, weekdays) ==
    LET one(t, wd) == weekdaysInYear(t, wd, ib)
    IN  IF Len(weekdays) = 0 THEN tt
        ELSE Concat([p \in 1..(Len(tt) * Len(weekdays)) |->
                one(Outer(tt, weekdays, p), Inner(weekdays, p))])

----------------------------------------------------------------------------
(* The occurrence generator: one rule, one anchor *)

Sunday == 0

Monday == 1

Tuesday == 2

Wednesday == 3

Thursday == 4

Friday == 5

Saturday == 6

Secondly == "Secondly"

Minutely == "Minutely"

Hourly == "Hourly"

Daily == "Daily"

Weekly == "Weekly"

Monthly == "Monthly"

Yearly == "Yearly"

Frequencies == {Secondly, Minutely, Hourly, Daily, Weekly, Monthly, Yearly}

\* The frequencies from the finest to the coarsest.
freqRank(f) ==
    CASE f = Secondly -> 1 [] f = Minutely -> 2 [] f = Hourly -> 3 [] f = Daily -> 4
      [] f = Weekly -> 5 [] f = Monthly -> 6 [] f = Yearly -> 7

\* The consecutive outer iterations without a yield after which the generator
\* gives up.
SafetyCap == 10000

\* uint64(i): the unsigned 64-bit value of the integer i, wrapping a negative
\* one, as its four 16-bit digits, most significant first (so the numbers are
\* ones the checker can hold): uint64(3) is <<0, 0, 0, 3>> and uint64(-1) is
\* <<65535, 65535, 65535, 65535>>, that is 18446744073709551615.
Uint64(i) ==
    IF i >= 0 THEN <<0, 0, i \div 65536, i % 65536>>
    ELSE <<65535, 65535, 65535 - ((0 - i - 1) \div 65536), 65535 - ((0 - i - 1) % 65536)>>

\* The count of a rule as a number to compare the number of yielded instants
\* with: its value when below 2^31, and otherwise 2^31 - 1, which no list of
\* yielded instants reaches.
countOf(r) ==
    IF r.count[1] = 0 /\ r.count[2] = 0 /\ r.count[3] < 32768
    THEN r.count[3] * 65536 + r.count[4]
    ELSE 2147483647

\* An RRule with only its frequency set: the zero value of every other field.
\* weekStart = -1 is the nil pointer, untilSet = FALSE the zero time.
ZeroRule(f) ==
    [freq |-> f, untilSet |-> FALSE, until |-> 0, count |-> Uint64(0), interval |-> 0,
     bySeconds |-> <<>>, byMinutes |-> <<>>, byHours |-> <<>>, byWeekdays |-> <<>>,
     byMonthDays |-> <<>>, byYearDays |-> <<>>, byWeekNumbers |-> <<>>,
     byMonths |-> <<>>, bySetPos |-> <<>>, weekStart |-> -1, ib |-> OmitInvalid,
     untilFloating |-> FALSE]

\* interval defaults to 1, weekStart to Monday.
intervalOf(r) == IF r.interval = 0 THEN 1 ELSE r.interval

weekStartOf(r) == IF r.weekStart = -1 THEN Monday ELSE r.weekStart

\* step: t advanced by interval units of freq.
step(t, f, interval) ==
    CASE f = Secondly -> t + interval
      [] f = Minutely -> t + 60 * interval
      [] f = Hourly   -> t + 3600 * interval
      [] f = Daily    -> AddDate(t, 0, 0, interval)
      [] f = Weekly   -> AddDate(t, 0, 0, 7 * interval)
      [] f = Monthly  -> AddDate(t, 0, interval, 0)
      [] f = Yearly   -> AddDate(t, interval, 0, 0)

\* A signed 1-based index v names position pos of n: from the end when negative.
ordinalIs(v, pos, n) == (v > 0 /\ pos = v) \/ (v < 0 /\ pos = n + 1 + v)

inList(v, list) == Len(list) = 0 \/ \E k \in 1..Len(list) : list[k] = v

validMonth(r, t) == inList(Month(t), r.byMonths)

validYearDay(r, t) ==
    \/ Len(r.byYearDays) = 0
    \/ \E k \in 1..Len(r.byYearDays) :
          ordinalIs(r.byYearDays[k], YearDay(t), DaysInYear(Year(t)))

validMonthDay(r, t) ==
    \/ Len(r.byMonthDays) = 0
    \/ \E k \in 1..Len(r.byMonthDays) :
          ordinalIs(r.byMonthDays[k], Day(t), DaysIn(Year(t), Month(t)))

validWeekday(r, t) ==
    \/ Len(r.byWeekdays) = 0
    \/ \E k \in 1..Len(r.byWeekdays) : r.byWeekdays[k].WD = Weekday(t)

validHour(r, t) == inList(Hour(t), r.byHours)

validMinute(r, t) == inList(Minute(t), r.byMinutes)

validSecond(r, t) == inList(Second(t), r.bySeconds)

\* The limit cells of the BY-part matrix: the filters of rule r's frequency.
checkLimiters(r, t) ==
    LET k == freqRank(r.freq)
    IN  /\ k = 7 \/ validMonth(r, t)
        /\ k = 7 \/ validYearDay(r, t)
        /\ k >= 6 \/ validMonthDay(r, t)
        /\ k >= 5 \/ validWeekday(r, t)
        /\ k >= 4 \/ validHour(r, t)
        /\ k >= 3 \/ validMinute(r, t)
        /\ k >= 2 \/ validSecond(r, t)

\* Monthly with weekdays and set positions: the rules for which the weekday
\* expansion may compute the indexed positions itself (expandMonthByWeekdays
\* takes bySetPos).
setPosInExpansion(r) ==
    /\ r.freq = Monthly
    /\ Len(r.byWeekdays) > 0
    /\ Len(r.byMonthDays) = 0
    /\ Len(r.bySetPos) > 0

\* The weekday stage of a Monthly or Yearly rule: the intersection with the
\* days already expanded, else every match within the month or year.
specialWeekdays(r, tt, setPos) ==
    LET hitM(x) == \E k \in 1..Len(r.byWeekdays) : inMonthOrdinal(x, r.byWeekdays[k])
        hitY(x) == \E k \in 1..Len(r.byWeekdays) : inYearOrdinal(x, r.byWeekdays[k])
    IN  IF Len(r.byWeekdays) = 0 THEN tt
        ELSE IF r.freq = Monthly
        THEN IF Len(r.byMonthDays) > 0 THEN SelectSeq(tt, hitM)
             ELSE expandMonthByWeekdays(tt, r.ib, setPos, r.byWeekdays)
        ELSE IF Len(r.byMonthDays) > 0 THEN SelectSeq(tt, hitM)
        ELSE IF Len(r.byYearDays) > 0 THEN SelectSeq(tt, hitY)
        ELSE IF Len(r.byMonths) > 0
             THEN expandMonthByWeekdays(tt, r.ib, <<>>, r.byWeekdays)
             ELSE expandYearByWeekdays(tt, r.ib, r.byWeekdays)

\* The BY-part list as the stage of a frequency sees it: the list where the
\* matrix says expand, nothing where it says limit.
expandIf(cond, list) == IF cond THEN list ELSE <<>>

\* The weekday stage: an expansion within the week for Weekly, the special
\* handling for Monthly and Yearly, nothing for the finer frequencies.
weekdayStage(r, tt, setPos) ==
    IF freqRank(r.freq) >= 6 THEN specialWeekdays(r, tt, setPos)
    ELSE expandByWeekdays(tt, weekStartOf(r), expandIf(r.freq = Weekly, r.byWeekdays))

\* Stage i of the pipeline applied to the working set tt.  The stages run in
\* ascending granularity: month, week number, year day, month day, weekday,
\* hour, minute, second.
stage(r, tt, setPos, i) ==
    LET k == freqRank(r.freq)
    IN  CASE i = 1 -> expandByMonths(tt, r.ib, expandIf(k = 7, r.byMonths))
          [] i = 2 -> expandByWeekNumbers(tt, weekStartOf(r), expandIf(k = 7, r.byWeekNumbers))
          [] i = 3 -> expandByYearDays(tt, expandIf(k = 7, r.byYearDays))
          [] i = 4 -> expandByMonthDays(tt, expandIf(k >= 6, r.byMonthDays))
          [] i = 5 -> weekdayStage(r, tt, setPos)
          [] i = 6 -> expandByHours(tt, expandIf(k >= 4, r.byHours))
          [] i = 7 -> expandByMinutes(tt, expandIf(k >= 3, r.byMinutes))
          [] i = 8 -> expandBySeconds(tt, expandIf(k >= 2, r.bySeconds))

RECURSIVE stagesFrom(_, _, _, _)
\* The stages i..8 applied in order.
stagesFrom(r, tt, setPos, i) ==
    IF i > 8 THEN tt ELSE stagesFrom(r, stage(r, tt, setPos, i), setPos, i + 1)

\* The candidates of the period anchored at t: the expansions of r's frequency
\* in ascending granularity, then its limit filters.  setPos is what the
\* Monthly weekday expansion is given.
variations(r, t, setPos) ==
    LET pass(x) == checkLimiters(r, x)
    IN  SelectSeq(stagesFrom(r, <<t>>, setPos, 1), pass)

\* Step 2 of the outer loop: the period's candidates sorted and deduplicated.
candidates(r, t, setPos) == SortedSeq(SeqRange(variations(r, t, setPos)))

\* Step 3: with bySetPos present, the sorted candidates full projected through
\* it.  A generator that computed the positions in the weekday expansion does
\* not project a second time.
selected(g, full) ==
    IF Len(g.rule.bySetPos) = 0 \/ g.direct THEN full
    ELSE project(full, g.rule.bySetPos)

\* yieldable without the lower bound dtstart.
yieldableFromAnyTime(g, c) ==
    /\ ~g.rule.untilSet \/ c <= g.rule.until
    /\ \A i \in 1..Len(g.out) : g.out[i] # c

\* Step 4: a candidate is dropped when it is strictly before dtstart, strictly
\* after until, or already yielded; any other is kept.
yieldable(g, c) ==
    /\ c >= g.dtstart
    /\ ~g.rule.untilSet \/ c <= g.rule.until
    /\ \A i \in 1..Len(g.out) : g.out[i] # c

\* yielded without the cut to what count still allows.
yieldedUncut(g, sel) ==
    LET keep(c) == yieldable(g, c)
    IN  SelectSeq(sel, keep)

\* The candidates of the current period that are yielded: the kept ones, cut
\* to what count still allows.
yielded(g, sel) ==
    LET keep(c) == yieldable(g, c)
        ok   == SelectSeq(sel, keep)
        room == IF countOf(g.rule) > 0 THEN countOf(g.rule) - Len(g.out) ELSE Len(ok)
    IN  SubSeq(ok, 1, IF Len(ok) < room THEN Len(ok) ELSE room)

\* until is passed: the period lies after it, or one of its candidates does.
pastUntil(g, sel) ==
    /\ g.rule.untilSet
    /\ \/ g.cur > g.rule.until
       \/ \E c \in SeqRange(sel) : c > g.rule.until

\* nextState failing one empty iteration after the safety cap.
nextStateLateCap(g, sel, ys) ==
    IF (countOf(g.rule) > 0 /\ Len(g.out) + Len(ys) >= countOf(g.rule)) \/ pastUntil(g, sel)
    THEN "Drained"
    ELSE IF Len(ys) = 0 /\ g.empty + 1 > SafetyCap THEN "Failed"
    ELSE "Active"

\* The generator's state after the outer iteration that yielded ys.
nextState(g, sel, ys) ==
    IF (countOf(g.rule) > 0 /\ Len(g.out) + Len(ys) >= countOf(g.rule)) \/ pastUntil(g, sel)
    THEN "Drained"
    ELSE IF Len(ys) = 0 /\ g.empty + 1 >= SafetyCap THEN "Failed"
    ELSE "Active"

\* A generator at its start.  direct says whether it computes the positions of
\* bySetPos in the weekday expansion, which only a rule of setPosInExpansion
\* allows.
newGenerator(r, d, direct) ==
    [pc |-> "gen", rule |-> r, dtstart |-> d, cur |-> d, out |-> <<>>, empty |-> 0,
     state |-> "Active", period |-> d, cands |-> <<>>, sel |-> <<>>, last |-> <<>>,
     direct |-> direct /\ setPosInExpansion(r)]

\* The generator after the outer iteration whose sorted candidates are full,
\* whose projection is sel and which yields ys.  period, cands, sel and last
\* record the period iterated and the three.
iterated(g, full, sel, ys) ==
    [g EXCEPT !.out   = g.out \o ys,
              !.empty = IF Len(ys) = 0 THEN g.empty + 1 ELSE 0,
              !.state = nextState(g, sel, ys),
              !.cur   = step(g.cur, g.rule.freq, intervalOf(g.rule)),
              !.period = g.cur,
              !.cands = full,
              !.sel   = sel,
              !.last  = ys]

yieldFrom(g, full, sel) == iterated(g, full, sel, yielded(g, sel))

selectFrom(g, full) == yieldFrom(g, full, selected(g, full))

\* One outer iteration: candidates, projection, filter, yield, advance.  The
\* weekday expansion is given bySetPos when g computes the positions in it.
iterate(g) ==
    selectFrom(g, candidates(g.rule, g.cur, IF g.direct THEN g.rule.bySetPos ELSE <<>>))

\* A pull on the generator: one outer iteration while it is Active, nothing
\* once it is Drained or Failed.
pull(g) == IF g.state = "Active" THEN iterate(g) ELSE g

----------------------------------------------------------------------------
(* The rules and anchors the generator is run on *)

\* The largest count of a simple rule, the instants after which a rule with
\* neither count nor until is no longer pulled, and the most periods between
\* the anchor and the until of a rule that is run.
MaxCount == 3

MaxYield == 4

MaxPeriods == 6

QW(n, wd) == [N |-> n, WD |-> wd]

AllWeekdays ==
    <<QW(0, Monday), QW(0, Tuesday), QW(0, Wednesday), QW(0, Thursday),
      QW(0, Friday), QW(0, Saturday), QW(0, Sunday)>>

\* The anchors: the tests' now (a Saturday), a first Tuesday of its month at
\* 01:02:03, the last day of February, and the 31st of a month.
now == Date(2018, 8, 25, 9, 8, 7)

firstTuesday == Date(2018, 9, 4, 1, 2, 3)

endOfFebruary == Date(2018, 2, 28, 9, 8, 7)

endOfAugust == Date(2018, 8, 31, 9, 8, 7)

Anchors == {now, firstTuesday, endOfFebruary, endOfAugust}

Untils ==
    {Date(2018, 8, 30, 0, 0, 0), Date(2018, 8, 27, 9, 8, 7), now, Date(2018, 8, 1, 0, 0, 0),
     Date(2018, 10, 2, 9, 8, 7), Date(2018, 8, 25, 9, 8, 9), Date(2018, 8, 25, 9, 10, 37),
     Date(2018, 8, 25, 11, 38, 7)}

SetPosChoices == {<<>>, <<1, 3, -1>>, <<-1>>, <<1, -1>>, <<2, 1>>, <<-2, 5, 1>>}

\* The rule of the tests' "setpos" cases for frequency f, without positions.
threePerPeriod(f) ==
    CASE f \in {Secondly, Minutely} -> [ZeroRule(f) EXCEPT !.bySeconds = <<1, 2, 3>>]
      [] f = Hourly                 -> [ZeroRule(f) EXCEPT !.byMinutes = <<1, 2, 3>>]
      [] f \in {Daily, Weekly}      -> [ZeroRule(f) EXCEPT !.byHours = <<1, 2, 3>>]
      [] OTHER                      -> [ZeroRule(f) EXCEPT !.byWeekdays = AllWeekdays]

SimpleRules ==
    {[ZeroRule(f) EXCEPT !.count = Uint64(c), !.interval = i] :
        f \in Frequencies, c \in 0..MaxCount, i \in {0, 2}}

\* The tests' setpos rules: with count for every frequency, with other
\* positions and without count for Daily and coarser.
SetPosRules ==
    {[threePerPeriod(f) EXCEPT !.byMonths = <<8, 9>>, !.bySetPos = <<1, 3, -1>>,
                               !.count = Uint64(MaxCount + 1)] : f \in Frequencies}
    \cup {[threePerPeriod(f) EXCEPT !.byMonths = <<8, 9>>, !.bySetPos = sp, !.count = Uint64(c)] :
            f \in {Daily, Weekly, Monthly, Yearly}, sp \in SetPosChoices, c \in {0, MaxCount + 1}}
    \cup {[threePerPeriod(Minutely) EXCEPT !.bySetPos = sp] : sp \in SetPosChoices}

\* Monthly weekdays with positions and a later expansion, a repeated weekday,
\* or several weekdays.
PositionedWeekdayRules ==
    {[ZeroRule(Monthly) EXCEPT !.byWeekdays = <<QW(0, Monday)>>, !.byHours = <<1, 2>>,
                               !.bySetPos = <<1>>, !.count = Uint64(MaxCount)],
     [ZeroRule(Monthly) EXCEPT !.byWeekdays = <<QW(0, Monday), QW(0, Monday)>>,
                               !.bySetPos = <<2>>],
     [ZeroRule(Monthly) EXCEPT !.byWeekdays = <<QW(0, Friday), QW(1, Tuesday)>>,
                               !.bySetPos = <<-1, 2>>]}

UntilRules ==
    {[ZeroRule(f) EXCEPT !.untilSet = TRUE, !.until = u] : f \in Frequencies, u \in Untils}
    \cup {[ZeroRule(Weekly) EXCEPT !.untilSet = TRUE, !.until = u,
                                   !.byWeekdays = <<QW(0, Monday), QW(0, Friday)>>] : u \in Untils}
    \cup {[ZeroRule(Daily) EXCEPT !.untilSet = TRUE, !.until = u,
                                  !.byHours = <<12, 1>>] : u \in Untils}
    \cup {[ZeroRule(Daily) EXCEPT !.untilSet = TRUE, !.until = Date(2018, 8, 25, 12, 8, 7),
                                  !.byHours = <<13, 1, 12>>]}
    \cup {[ZeroRule(Daily) EXCEPT !.untilSet = TRUE, !.until = u, !.count = Uint64(MaxCount)] :
            u \in Untils}

WeekdayRules ==
    {[ZeroRule(Monthly) EXCEPT !.count = Uint64(MaxCount), !.byWeekdays = <<QW(n, wd)>>] :
        n \in {1, -1, 0}, wd \in {Tuesday, Friday}}
    \cup {[ZeroRule(Weekly) EXCEPT !.count = Uint64(MaxCount), !.byWeekdays = wds, !.weekStart = ws] :
        wds \in {<<QW(0, Tuesday)>>, <<QW(2, Friday), QW(0, Monday)>>},
        ws \in {-1, Sunday, Saturday}}
    \cup {[ZeroRule(Yearly) EXCEPT !.count = Uint64(MaxCount + 1),
              !.byWeekdays = <<QW(0, Tuesday), QW(35, Wednesday), QW(-17, Monday)>>],
          [ZeroRule(Daily) EXCEPT !.byWeekdays = <<QW(0, Tuesday), QW(0, Saturday)>>],
          [ZeroRule(Monthly) EXCEPT !.byMonthDays = <<4, 25>>,
              !.byWeekdays = <<QW(0, Tuesday), QW(0, Saturday)>>]}

\* Lists with repeated and unordered values, negative ordinals, and months
\* that lack the anchor's day.
ListRules ==
    {[ZeroRule(Daily) EXCEPT !.byHours = <<3, 1, 3>>],
     [ZeroRule(Monthly) EXCEPT !.byMonthDays = <<15, 1, 15>>],
     [ZeroRule(Minutely) EXCEPT !.bySeconds = <<7, 7, 3>>, !.count = Uint64(MaxCount)],
     [ZeroRule(Monthly) EXCEPT !.byMonthDays = <<-1>>],
     [ZeroRule(Daily) EXCEPT !.byMonthDays = <<-1, 4>>],
     [ZeroRule(Yearly) EXCEPT !.byYearDays = <<365, -1>>],
     [ZeroRule(Yearly) EXCEPT !.byWeekNumbers = <<53, 1>>],
     [ZeroRule(Yearly) EXCEPT !.byWeekNumbers = <<20, 2>>, !.count = Uint64(MaxCount)],
     [ZeroRule(Daily) EXCEPT !.byYearDays = <<-1, 237>>],
     [ZeroRule(Hourly) EXCEPT !.byHours = <<1, 9>>, !.byMinutes = <<2, 8>>]}
    \cup {[ZeroRule(Yearly) EXCEPT !.byMonths = <<2, 8>>, !.ib = ib] : ib \in InvalidBehaviors}

\* Rules that match in no period.
EmptyRules ==
    {[ZeroRule(Daily) EXCEPT !.byMonthDays = <<30>>, !.byMonths = <<2>>],
     [ZeroRule(Daily) EXCEPT !.byHours = <<1, 2, 3>>, !.bySetPos = <<4>>, !.count = Uint64(MaxCount)]}

GenRules == SimpleRules \cup SetPosRules \cup PositionedWeekdayRules \cup UntilRules
            \cup WeekdayRules \cup ListRules \cup EmptyRules

\* A rule that never ends: it has neither count nor until.
unbounded(r) == countOf(r) = 0 /\ ~r.untilSet

\* Every rule is run from every anchor; a rule with until only from the
\* anchors at most MaxPeriods periods before its until.
GenInputs ==
    {p \in GenRules \X Anchors :
        p[1].untilSet => p[1].until - p[2] <= MaxPeriods * step(0, p[1].freq, 1)}

GenInit ==
    /\ gen \in {newGenerator(p[1], p[2], b) : p \in GenInputs, b \in BOOLEAN}
    /\ iters = 0
    /\ comb = Idle /\ prs = Idle /\ rec = Idle /\ mexp = Idle

\* The consumer pulls until the generator ends; a rule that never ends is
\* pulled until it has yielded MaxYield instants.
GenIterate ==
    /\ unbounded(gen.rule) => Len(gen.out) < MaxYield
    /\ iters' = IF gen.state = "Active" THEN iters + 1 ELSE iters
    /\ gen' = pull(gen)
    /\ UNCHANGED <<comb, prs, rec, mexp>>

GenNext == GenIterate

SpecGen == GenInit /\ [][GenNext]_vars

\* The part of GenIterate that runs an outer iteration, as seen on iters.
GenAdvance ==
    /\ unbounded(gen.rule) => Len(gen.out) < MaxYield
    /\ gen.state = "Active"
    /\ iters' = iters + 1

\* The consumer keeps pulling: an outer iteration that can run does run.
SpecGenFair == SpecGen /\ WF_iters(GenAdvance)

----------------------------------------------------------------------------
(* Properties of the generator *)

Out == gen.out

\* C1: the instants a generator yields are strictly increasing in time, so
\* none is yielded twice, also across outer periods and when expansions
\* produce the same instant more than once.
C1_StrictlyIncreasing ==
    \A i \in 1..(Len(Out) - 1) : Out[i] < Out[i + 1]

\* C2: every yielded instant is at or after dtstart and, when the rule has an
\* until instant, at or before it (inclusive).
C2_WithinBounds ==
    \A i \in 1..Len(Out) :
        /\ Out[i] >= gen.dtstart
        /\ gen.rule.untilSet => Out[i] <= gen.rule.until

\* A first period with a candidate before dtstart, one equal to until, which
\* is the only one yielded, and one after until.
C2_Witness ==
    /\ gen.rule.untilSet
    /\ Out = <<gen.rule.until>>
    /\ \E c \in SeqRange(gen.sel) : c < gen.dtstart
    /\ \E c \in SeqRange(gen.sel) : c > gen.rule.until

\* The number of later periods of a rule that are looked at for a match.
MatchHorizon == 60

RECURSIVE C3_Stepped(_, _, _)
\* t advanced by n steps of rule r.
C3_Stepped(r, t, n) ==
    IF n = 0 THEN t ELSE C3_Stepped(r, step(t, r.freq, intervalOf(r)), n - 1)

\* Periods of generator g from its anchor on: for Weekly and finer, those a
\* whole number of weeks (times the interval) after the anchor, each a whole
\* number of steps; for Monthly and Yearly, the next ones.
C3_Periods(g) ==
    IF freqRank(g.rule.freq) <= 5
    THEN {g.dtstart + n * 7 * SecondsPerDay * intervalOf(g.rule) : n \in 0..MatchHorizon}
    ELSE {C3_Stepped(g.rule, g.dtstart, n) : n \in 0..MatchHorizon}

\* The rule of g has no until and one of these periods holds a selected
\* candidate at or after the anchor.  The calendar repeats every 400 years, so
\* such a rule matches in infinitely many periods.
C3_Matches(g) ==
    /\ ~g.rule.untilSet
    /\ \E t \in C3_Periods(g) :
          \E c \in SeqRange(iterate([g EXCEPT !.cur = t]).sel) : c >= g.dtstart

\* C3 as stated: a rule with count = k > 0 yields at most k instants over all
\* periods, and a rule that matches in infinitely many periods yields exactly
\* k and then ends: it does not end with another number of instants.
C3_ExactlyCount ==
    countOf(gen.rule) > 0 =>
        /\ Len(Out) <= countOf(gen.rule)
        /\ (gen.state # "Active" /\ Len(Out) # countOf(gen.rule)) => ~C3_Matches(gen)

\* C3, amended: a rule with count = k > 0 yields at most k instants over all
\* periods; its generator is Active only with fewer than k; when it is Drained
\* and the rule has no until it has yielded exactly k; and it ends with fewer
\* than k without an until only as Failed, after SafetyCap consecutive outer
\* iterations that yielded nothing.
C3_AtMostCount ==
    countOf(gen.rule) > 0 =>
        /\ Len(Out) <= countOf(gen.rule)
        /\ gen.state = "Active" => Len(Out) < countOf(gen.rule)
        /\ (gen.state = "Drained" /\ ~gen.rule.untilSet) => Len(Out) = countOf(gen.rule)
        /\ gen.state = "Failed" => (gen.empty = SafetyCap /\ Len(Out) < countOf(gen.rule))

\* The count reached inside a period that held a later candidate still.
C3_Witness ==
    /\ countOf(gen.rule) > 0
    /\ Len(Out) = countOf(gen.rule)
    /\ gen.state = "Drained"
    /\ \E c \in SeqRange(gen.sel) : c > Out[Len(Out)]

\* The position pos of n is named by a set position of rule r.
C7_Named(r, pos, n) ==
    \E k \in 1..Len(r.bySetPos) :
        \/ r.bySetPos[k] > 0 /\ r.bySetPos[k] = pos
        \/ r.bySetPos[k] < 0 /\ n - pos + 1 = -r.bySetPos[k]

\* The sorted, deduplicated candidate set of the period iterated last.
C7_CandidateSet == candidates(gen.rule, gen.period, <<>>)

\* C7: with bySetPos present, each outer period keeps exactly the candidates
\* whose 1-based position in the period's sorted, deduplicated candidate set is
\* listed (negative positions counted from the end), each once, and yields
\* nothing else.
C7_SetPosProjection ==
    (Len(gen.rule.bySetPos) > 0 /\ iters > 0) =>
        LET set == C7_CandidateSet
        IN  /\ \A i \in 1..(Len(gen.sel) - 1) : gen.sel[i] < gen.sel[i + 1]
            /\ SeqRange(gen.sel) =
                  {set[i] : i \in {j \in 1..Len(set) : C7_Named(gen.rule, j, Len(set))}}
            /\ SeqRange(gen.last) \subseteq SeqRange(gen.sel)

\* The signed 1-based index v names day number pos of a period of n days.
C4_Ordinal(v, pos, n) == (v > 0 /\ v = pos) \/ (v < 0 /\ n + v + 1 = pos)

\* t satisfies the qualified weekday q as rule r's frequency reads it: the
\* weekday alone for Weekly and finer, the ordinal within the month for
\* Monthly (and for Yearly with months), within the year for Yearly.
C4_OnWeekday(r, t, q) ==
    /\ Weekday(t) = q.WD
    /\ \/ freqRank(r.freq) <= 5
       \/ q.N = 0
       \/ IF r.freq = Monthly \/ Len(r.byMonths) > 0
          THEN C4_Ordinal(q.N, ((Day(t) - 1) \div 7) + 1,
                          ((Day(t) - 1) \div 7) + ((DaysIn(Year(t), Month(t)) - Day(t)) \div 7) + 1)
          ELSE C4_Ordinal(q.N, ((YearDay(t) - 1) \div 7) + 1,
                          ((YearDay(t) - 1) \div 7) + ((DaysInYear(Year(t)) - YearDay(t)) \div 7) + 1)

\* t satisfies the BY-parts of r whose matrix rank is in ranks: part p of
\* frequency rank k is a limit when k <= limitUpTo[p].
C4_Satisfies(r, t, onlyLimits) ==
    LET k == freqRank(r.freq)
        on(limitUpTo) == ~onlyLimits \/ k <= limitUpTo
    IN  /\ (on(6) /\ Len(r.byMonths) > 0) => \E i \in 1..Len(r.byMonths) : r.byMonths[i] = Month(t)
        /\ (on(6) /\ Len(r.byYearDays) > 0) =>
              \E i \in 1..Len(r.byYearDays) :
                  C4_Ordinal(r.byYearDays[i], YearDay(t), DaysInYear(Year(t)))
        /\ (on(5) /\ Len(r.byMonthDays) > 0) =>
              \E i \in 1..Len(r.byMonthDays) :
                  C4_Ordinal(r.byMonthDays[i], Day(t), DaysIn(Year(t), Month(t)))
        /\ (on(4) /\ Len(r.byWeekdays) > 0) =>
              \E i \in 1..Len(r.byWeekdays) : C4_OnWeekday(r, t, r.byWeekdays[i])
        /\ (on(3) /\ Len(r.byHours) > 0) => \E i \in 1..Len(r.byHours) : r.byHours[i] = Hour(t)
        /\ (on(2) /\ Len(r.byMinutes) > 0) => \E i \in 1..Len(r.byMinutes) : r.byMinutes[i] = Minute(t)
        /\ (on(1) /\ Len(r.bySeconds) > 0) => \E i \in 1..Len(r.bySeconds) : r.bySeconds[i] = Second(t)

\* Every yielded instant satisfies every limit BY-filter of the rule.
C4_YieldsPassLimits == \A i \in 1..Len(Out) : C4_Satisfies(gen.rule, Out[i], TRUE)

\* C4: every yielded instant satisfies every limit BY-filter of the rule for
\* its frequency, and once the anchor's period has been iterated (for a rule
\* without BYSETPOS whose until is not before the anchor) the anchor has been
\* yielded if and only if it satisfies every BY-filter of the rule.
C4_LimitsAndAnchor ==
    /\ C4_YieldsPassLimits
    /\ (/\ gen.cur > gen.dtstart
        /\ Len(gen.rule.bySetPos) = 0
        /\ gen.rule.untilSet => gen.rule.until >= gen.dtstart)
       => ((Len(Out) > 0 /\ Out[1] = gen.dtstart) <=> C4_Satisfies(gen.rule, gen.dtstart, FALSE))

\* The state of the generator agrees with what it has done: Active with
\* fewer than SafetyCap empty iterations in a row and count not reached,
\* Drained with count reached or until passed, Failed at the cap.
C5_StateAgrees ==
    /\ gen.state \in {"Active", "Drained", "Failed"}
    /\ gen.state = "Active" =>
          /\ gen.empty < SafetyCap
          /\ countOf(gen.rule) > 0 => Len(Out) < countOf(gen.rule)
    /\ gen.state = "Drained" =>
          \/ countOf(gen.rule) > 0 /\ Len(Out) = countOf(gen.rule)
          \/ /\ gen.rule.untilSet
             /\ \/ gen.cur > gen.rule.until
                \/ \E c \in SeqRange(gen.sel) : c > gen.rule.until
    /\ gen.state = "Failed" => gen.empty = SafetyCap /\ gen.last = <<>>

\* A pull on a Drained or Failed generator changes nothing.
C5_Terminal == gen.state # "Active" => gen' = gen

\* The search is over: the generator is Drained or Failed, or its rule never
\* ends and it has yielded MaxYield instants.
C5_Done == gen.state # "Active" \/ (unbounded(gen.rule) /\ Len(Out) >= MaxYield)

\* C5: the generator always terminates its search: from Active it moves to
\* Drained when count instants have been yielded or until is passed and to
\* Failed after SafetyCap consecutive outer iterations without a yield;
\* Drained and Failed are terminal.
C5_Terminates == [](C5_StateAgrees) /\ [][C5_Terminal]_vars /\ <>(C5_Done)

\* BYMONTHDAY=30;BYMONTH=2 failed after SafetyCap empty iterations.
C5_Witness ==
    /\ gen.state = "Failed"
    /\ gen.empty = SafetyCap
    /\ gen.rule.byMonths = <<2>>
    /\ gen.rule.byMonthDays = <<30>>
    /\ Out = <<>>

----------------------------------------------------------------------------
(* The month expansion run on its own *)

\* Instants on days that not every month has, and on days every month has.
MonthInstants ==
    {Date(2018, 1, 31, 9, 8, 7), Date(2018, 1, 30, 23, 59, 59), Date(2018, 1, 29, 0, 0, 0),
     Date(2018, 3, 31, 1, 2, 3), Date(2018, 5, 31, 9, 8, 7), endOfAugust, Date(2018, 10, 31, 9, 8, 7),
     Date(2018, 12, 31, 9, 8, 7), Date(2020, 1, 30, 9, 8, 7), Date(2020, 1, 29, 9, 8, 7),
     now, endOfFebruary}

MonthLists == {<<m>> : m \in 1..12} \cup {<<2, 4>>, <<9, 2, 8>>, <<>>}

MonthInputs == {<<t>> : t \in MonthInstants} \cup {<<now, endOfAugust>>}

MonthsInit ==
    /\ mexp \in {[pc |-> "ready", tt |-> tt, ib |-> ib, months |-> ms, out |-> <<>>] :
                    tt \in MonthInputs, ib \in InvalidBehaviors, ms \in MonthLists}
    /\ gen = Idle /\ iters = 0 /\ comb = Idle /\ prs = Idle /\ rec = Idle

MonthsExpand ==
    /\ mexp.pc = "ready"
    /\ mexp' = [mexp EXCEPT !.pc = "done",
                            !.out = expandByMonths(mexp.tt, mexp.ib, mexp.months)]
    /\ UNCHANGED <<gen, iters, comb, prs, rec>>

MonthsNext == MonthsExpand

SpecMonths == MonthsInit /\ [][MonthsNext]_vars

\* The candidate for instant t and month m as stated: t's day in m when m has
\* it; otherwise nothing, the last day of m, or the first day of the month
\* after m, at t's clock-of-day.
C10_Candidate(t, ib, m) ==
    IF Day(t) <= DaysIn(Year(t), m)
    THEN <<Date(Year(t), m, Day(t), Hour(t), Minute(t), Second(t))>>
    ELSE CASE ib = PrevInvalid ->
                <<Date(Year(t), m, DaysIn(Year(t), m), Hour(t), Minute(t), Second(t))>>
           [] ib = NextInvalid ->
                <<Date(Year(t), m + 1, 1, Hour(t), Minute(t), Second(t))>>
           [] OTHER -> <<>>

\* C10: for every input instant t and every listed month m, expandByMonths
\* yields t's day in m when it exists and otherwise drops the candidate
\* (OmitInvalid), yields the last day of m (PrevInvalid) or the first day of
\* the month following m (NextInvalid), keeping t's clock-of-day.
C10_MonthExpansion ==
    (mexp.pc = "done" /\ Len(mexp.months) > 0) =>
        LET stated(t, m) == C10_Candidate(t, mexp.ib, m)
        IN  mexp.out =
                Concat([p \in 1..(Len(mexp.tt) * Len(mexp.months)) |->
                    stated(Outer(mexp.tt, mexp.months, p), Inner(mexp.months, p))])

----------------------------------------------------------------------------
(* The day expansions run on their own *)

\* Instants at the start, in the middle and at the end of months and years, in
\* a leap year and in common years.
DayInstants ==
    {now, endOfFebruary, endOfAugust, Date(2018, 1, 1, 0, 0, 0), Date(2018, 12, 31, 23, 59, 59),
     Date(2020, 2, 29, 9, 8, 7), Date(2020, 3, 1, 1, 2, 3), Date(2019, 4, 15, 12, 0, 0)}

DayInputs == {<<t>> : t \in DayInstants} \cup {<<now, endOfFebruary>>}

\* Lists of month days: first and last days, days that only some months have.
MonthDayLists ==
    {<<d>> : d \in {1, 2, 15, 28, 29, 30, 31, -1, -2, -15, -28, -29, -30, -31}}
        \cup {<<1, -1>>, <<-1, 15, 31>>, <<>>}

\* Lists of year days: first and last days, days that only a leap year has.
YearDayLists ==
    {<<d>> : d \in {1, 2, 59, 60, 237, 365, 366, -1, -2, -129, -365, -366}}
        \cup {<<1, -1>>, <<-1, 100, 366>>, <<>>}

DaysInit ==
    /\ mexp \in {[pc |-> "ready", by |-> "monthdays", tt |-> tt, days |-> ds, out |-> <<>>] :
                    tt \in DayInputs, ds \in MonthDayLists}
            \cup {[pc |-> "ready", by |-> "yeardays", tt |-> tt, days |-> ds, out |-> <<>>] :
                    tt \in DayInputs, ds \in YearDayLists}
    /\ gen = Idle /\ iters = 0 /\ comb = Idle /\ prs = Idle /\ rec = Idle

MonthDaysExpand ==
    /\ mexp.pc = "ready" /\ mexp.by = "monthdays"
    /\ mexp' = [mexp EXCEPT !.pc = "done", !.out = expandByMonthDays(mexp.tt, mexp.days)]
    /\ UNCHANGED <<gen, iters, comb, prs, rec>>

YearDaysExpand ==
    /\ mexp.pc = "ready" /\ mexp.by = "yeardays"
    /\ mexp' = [mexp EXCEPT !.pc = "done", !.out = expandByYearDays(mexp.tt, mexp.days)]
    /\ UNCHANGED <<gen, iters, comb, prs, rec>>

DaysNext == MonthDaysExpand \/ YearDaysExpand

SpecDays == DaysInit /\ [][DaysNext]_vars

\* The number of days in the period of t that the expansion counts in: t's
\* month or t's year.
C11_PeriodDays(by, t) ==
    IF by = "monthdays" THEN DaysIn(Year(t), Month(t)) ELSE DaysInYear(Year(t))

\* The 1-based position within the period that index d names: d itself when
\* positive, counted back from the last day when negative.
C11_Position(by, t, d) == IF d > 0 THEN d ELSE C11_PeriodDays(by, t) + 1 + d

\* The instant index d names as stated: the day at that position of t's month,
\* respectively year, at t's clock-of-day.
C11_Indexed(by, t, d) ==
    IF by = "monthdays"
    THEN Date(Year(t), Month(t), C11_Position(by, t, d), Hour(t), Minute(t), Second(t))
    ELSE Date(Year(t), 1, C11_Position(by, t, d), Hour(t), Minute(t), Second(t))

\* Whether the period of t has a day at index d.
C11_InPeriod(by, t, d) == d # 0 /\ (IF d > 0 THEN d ELSE 0 - d) <= C11_PeriodDays(by, t)

\* C11: in the day expansions an index counts days 1-based within the period
\* of the input instant t: for every t and every listed index d that t's month
\* (expandByMonthDays), respectively year (expandByYearDays), has, the
\* candidate is day d of the period when d > 0 and the |d|-th day from its end
\* when d < 0 (-1 the last day), so it lies in t's own month, respectively
\* year, and keeps t's clock-of-day.
C11_DayIndices ==
    (mexp.pc = "done" /\ Len(mexp.days) > 0) =>
        \A p \in 1..(Len(mexp.tt) * Len(mexp.days)) :
            LET t == Outer(mexp.tt, mexp.days, p)
                d == Inner(mexp.days, p)
            IN  C11_InPeriod(mexp.by, t, d) => mexp.out[p] = C11_Indexed(mexp.by, t, d)

----------------------------------------------------------------------------
(* The weekday expansion run on its own *)

\* One instant on each day of the week of now, and instants at a year's and a
\* leap day's boundaries.
WeekInstants ==
    {AddDate(now, 0, 0, k) : k \in 0..6}
        \cup {Date(2018, 1, 1, 0, 0, 0), Date(2018, 12, 31, 23, 59, 59), Date(2020, 2, 29, 9, 8, 7)}

WeekInputs == {<<t>> : t \in WeekInstants} \cup {<<now, endOfFebruary>>}

\* Lists of qualified weekdays with and without an ordinal.
WeekdayLists ==
    {<<QW(n, wd)>> : n \in {0, 1, -1, 35}, wd \in Sunday..Saturday}
        \cup {<<QW(0, Tuesday), QW(2, Sunday)>>, <<QW(-17, Monday), QW(0, Saturday), QW(0, Monday)>>,
              <<>>}

WeekdaysInit ==
    /\ mexp \in {[pc |-> "ready", tt |-> tt, ws |-> ws, weekdays |-> wds, out |-> <<>>] :
                    tt \in WeekInputs, ws \in Sunday..Saturday, wds \in WeekdayLists}
    /\ gen = Idle /\ iters = 0 /\ comb = Idle /\ prs = Idle /\ rec = Idle

WeekdaysExpand ==
    /\ mexp.pc = "ready"
    /\ mexp' = [mexp EXCEPT !.pc = "done",
                            !.out = expandByWeekdays(mexp.tt, mexp.ws, mexp.weekdays)]
    /\ UNCHANGED <<gen, iters, comb, prs, rec>>

WeekdaysNext == WeekdaysExpand

SpecWeekdays == WeekdaysInit /\ [][WeekdaysNext]_vars

\* The instants whole days after s, from none to six: the 7-day week that
\* starts at s.
C12_Week(s) == {s + k * SecondsPerDay : k \in 0..6}

\* The latest instant on weekday ws at or before t, at t's clock-of-day.
C12_WeekStart(t, ws) ==
    CHOOSE s \in {t - k * SecondsPerDay : k \in 0..6} : Weekday(s) = ws

\* C12: in a Weekly expansion, for every input instant t, week start ws and
\* listed qualified weekday (n, wd), exactly one candidate is produced per
\* listed weekday, whatever n is: it falls on weekday wd, lies 0 to 6 whole
\* days after the latest day of weekday ws at or before t, and so keeps t's
\* clock-of-day; ws selects the week and no candidate leaves that week.
C12_WeeklyWeekdays ==
    (mexp.pc = "done" /\ Len(mexp.weekdays) > 0) =>
        /\ Len(mexp.out) = Len(mexp.tt) * Len(mexp.weekdays)
        /\ \A p \in 1..(Len(mexp.tt) * Len(mexp.weekdays)) :
              LET t == Outer(mexp.tt, mexp.weekdays, p)
                  q == Inner(mexp.weekdays, p)
              IN  /\ Weekday(mexp.out[p]) = q.WD
                  /\ mexp.out[p] \in C12_Week(C12_WeekStart(t, mexp.ws))
                  /\ Hour(mexp.out[p]) = Hour(t)
                  /\ Minute(mexp.out[p]) = Minute(t)
                  /\ Second(mexp.out[p]) = Second(t)

\* A Weekly expansion of a weekday with an ordinal, under a week start other
\* than Monday, whose candidate lies before the input instant.
C12_Witness ==
    /\ mexp.pc = "done"
    /\ mexp.tt = <<now>>
    /\ mexp.ws = Sunday
    /\ mexp.weekdays = <<QW(35, Tuesday)>>
    /\ mexp.out = <<Date(2018, 8, 21, 9, 8, 7)>>

----------------------------------------------------------------------------
(* The recurrence combiner *)

\* Every instant a generator yields, in order: the stream a source of the
\* combiner reads.
RECURSIVE drain(_)
drain(g) == IF g.state = "Active" THEN drain(iterate(g)) ELSE g.out

\* The cursor over an explicit date list: its dates in the order of the list.
dateCursor(dates) == dates

\* The inclusion source whose next instant is least, the lowest source id
\* winning a tie.
minSource(srcs) ==
    CHOOSE i \in 1..Len(srcs) :
        /\ Len(srcs[i]) > 0
        /\ \A j \in 1..Len(srcs) :
              Len(srcs[j]) > 0 =>
                  \/ srcs[i][1] < srcs[j][1]
                  \/ srcs[i][1] = srcs[j][1] /\ i <= j

\* An exclusion stream advanced to the candidate c.
RECURSIVE skipTo(_, _)
skipTo(stream, c) ==
    IF Len(stream) > 0 /\ stream[1] < c THEN skipTo(Tail(stream), c) ELSE stream

\* The popped instant c is emitted unless it equals the instant emitted
\* before or an exclusion stream, advanced to c, stands at c.
emits(out, exs, c) ==
    /\ ~(Len(out) > 0 /\ out[Len(out)] = c)
    /\ \A k \in 1..Len(exs) : ~(Len(exs[k]) > 0 /\ exs[k][1] = c)

\* The combiner is done: every source is drained or limit instants are out.
finished(s) ==
    \/ \A i \in 1..Len(s.incl) : Len(s.incl[i]) = 0
    \/ s.limit > 0 /\ Len(s.out) >= s.limit

emitted(s, i, c, exs) ==
    [s EXCEPT !.incl = [s.incl EXCEPT ![i] = Tail(@)],
              !.excl = exs,
              !.out  = IF emits(s.out, exs, c) THEN Append(@, c) ELSE @]

tested(s, i, c) == emitted(s, i, c, [k \in 1..Len(s.excl) |-> skipTo(s.excl[k], c)])

popped(s, i) == tested(s, i, s.incl[i][1])

\* One round of the combiner: pop the least next instant, advance its source,
\* test it against the exclusions and the last emission.
combStep(s) == popped(s, minSource(s.incl))

\* The combiner for the given sources: inclusion rules and the RDATE cursor,
\* exclusion rules and the EXDATE cursor.  streams and excluded keep what the
\* sources hold at the start.
newCombiner(rules, exrules, rdates, exdates, limit) ==
    [pc |-> "comb", limit |-> limit, out |-> <<>>,
     incl |-> rules \o <<dateCursor(rdates)>>,
     excl |-> exrules \o <<dateCursor(exdates)>>,
     streams |-> rules \o <<rdates>>,
     excluded |-> exrules \o <<exdates>>]

\* The largest limit passed to all.
MaxLimit == 3

dailyThrice == [ZeroRule(Daily) EXCEPT !.count = Uint64(3)]

halfDaily == [ZeroRule(Hourly) EXCEPT !.interval = 12, !.count = Uint64(4)]

weeklyTwice == [ZeroRule(Weekly) EXCEPT !.count = Uint64(2)]

everyOtherDay == [ZeroRule(Daily) EXCEPT !.interval = 2, !.count = Uint64(2)]

CombRuleLists ==
    {<<>>, <<dailyThrice>>, <<halfDaily>>, <<dailyThrice, halfDaily>>, <<halfDaily, dailyThrice>>,
     <<dailyThrice, dailyThrice>>, <<dailyThrice, halfDaily, weeklyTwice>>}

CombExRuleLists == {<<>>, <<everyOtherDay>>, <<weeklyTwice, everyOtherDay>>}

CombRDates ==
    {<<>>, <<now + SecondsPerDay>>, <<now + 12 * 3600>>,
     <<now + 5 * SecondsPerDay, now - SecondsPerDay, now + 5 * SecondsPerDay>>}

CombExDates == {<<>>, <<now + SecondsPerDay>>, <<now + 5 * SecondsPerDay, now>>}

CombInit ==
    /\ comb \in {newCombiner([i \in 1..Len(rs) |-> drain(newGenerator(rs[i], now, FALSE))],
                             [i \in 1..Len(xs) |-> drain(newGenerator(xs[i], now, FALSE))],
                             rd, xd, limit) :
                    rs \in CombRuleLists, xs \in CombExRuleLists,
                    rd \in CombRDates, xd \in CombExDates, limit \in 0..MaxLimit}
    /\ gen = Idle /\ iters = 0 /\ prs = Idle /\ rec = Idle /\ mexp = Idle

CombRound ==
    /\ comb.pc = "comb"
    /\ ~finished(comb)
    /\ comb' = combStep(comb)
    /\ UNCHANGED <<gen, iters, prs, rec, mexp>>

CombReturn ==
    /\ comb.pc = "comb"
    /\ finished(comb)
    /\ comb' = [comb EXCEPT !.pc = "done"]
    /\ UNCHANGED <<gen, iters, prs, rec, mexp>>

CombNext == CombRound \/ CombReturn

SpecComb == CombInit /\ [][CombNext]_vars

\* The instants the streams ss hold.
C6_Instants(ss) == UNION {SeqRange(ss[i]) : i \in 1..Len(ss)}

\* C6: the sequence the combiner returns is ordered, holds no instant twice
\* even when two inclusion sources produce it, holds no instant that is an
\* EXDATE or is produced by an exclusion rule, holds only instants of its
\* inclusion sources, and has at most limit elements when limit > 0.
C6_Combined ==
    comb.pc \in {"comb", "done"} =>
        /\ \A i \in 1..(Len(comb.out) - 1) : comb.out[i] < comb.out[i + 1]
        /\ SeqRange(comb.out) \cap C6_Instants(comb.excluded) = {}
        /\ SeqRange(comb.out) \subseteq C6_Instants(comb.streams)
        /\ comb.limit > 0 => Len(comb.out) <= comb.limit
        /\ (comb.pc = "done" /\ comb.limit = 0) =>
              SeqRange(comb.out) = C6_Instants(comb.streams) \ C6_Instants(comb.excluded)

----------------------------------------------------------------------------
(* parse.go: a text is the sequence of its bytes.  An ASCII byte is written as
   the one-character string of its character, any other byte by its value in
   hexadecimal ("0xC5"), so a character outside ASCII is the two or three
   bytes of its UTF-8 encoding. *)

LowerLetters == <<"a", "b", "c", "d", "e", "f", "g", "h", "i", "j", "k", "l", "m", "n", "o", "p", "q", "r", "s", "t", "u", "v", "w", "x", "y", "z">>

UpperLetters == <<"A", "B", "C", "D", "E", "F", "G", "H", "I", "J", "K", "L", "M", "N", "O", "P", "Q", "R", "S", "T", "U", "V", "W", "X", "Y", "Z">>

Digits == <<"0", "1", "2", "3", "4", "5", "6", "7", "8", "9">>

\* The position of character c in the table, 0 when it is not there.
indexIn(table, c) ==
    IF \E i \in 1..Len(table) : table[i] = c
    THEN CHOOSE i \in 1..Len(table) : table[i] = c
    ELSE 0

\* The case mapping of an ASCII byte.
mapChar(from, to, c) == IF indexIn(from, c) > 0 THEN to[indexIn(from, c)] ELSE c

\* The characters outside ASCII whose upper case is an ASCII letter, U+017F
\* (long s) and U+0131 (dotless i), as their UTF-8 bytes, with that letter.
upperRunes == <<<<<<"0xC5", "0xBF">>, "S">>, <<<<"0xC4", "0xB1">>, "I">>>>

\* Those whose lower case is an ASCII letter: U+212A (Kelvin sign) and U+0130
\* (I with dot above).
lowerRunes == <<<<<<"0xE2", "0x84", "0xAA">>, "k">>, <<<<"0xC4", "0xB0">>, "i">>>>

\* The case mapping of a text: each of runes becomes its letter (one byte for
\* its two or three), an ASCII letter changes case, every other byte stays
\* (the other characters outside ASCII map to characters outside ASCII, which
\* no key or value of a rule has).  runeAt(i) is the place in runes of the
\* character whose bytes start at position i, 0 for none; inRune(i) holds of
\* the later bytes of such a character.
mapRunes(s, from, to, runes) ==
    LET hits(i) == {k \in 1..Len(runes) :
                       /\ i >= 1
                       /\ i + Len(runes[k][1]) - 1 <= Len(s)
                       /\ SubSeq(s, i, i + Len(runes[k][1]) - 1) = runes[k][1]}
        runeAt(i) == IF hits(i) = {} THEN 0 ELSE CHOOSE k \in hits(i) : TRUE
        inRune(i) == \E j \in 1..2 : runeAt(i - j) > 0 /\ j < Len(runes[runeAt(i - j)][1])
        mapped == [i \in 1..Len(s) |->
                    IF runeAt(i) > 0 THEN runes[runeAt(i)][2]
                    ELSE IF inRune(i) THEN ""
                    ELSE mapChar(from, to, s[i])]
        kept(c) == c # ""
    IN  SelectSeq(mapped, kept)

\* strings.ToUpper and strings.ToLower.
ToUpper(s) == mapRunes(s, LowerLetters, UpperLetters, upperRunes)

ToLower(s) == mapRunes(s, UpperLetters, LowerLetters, lowerRunes)

\* strings.IndexAny, 1-based: the first position of s holding one of chars,
\* 0 when there is none.
IndexAny(s, chars) ==
    IF \E i \in 1..Len(s) : s[i] \in chars
    THEN MinOf({i \in 1..Len(s) : s[i] \in chars})
    ELSE 0

\* The text after position i.
After(s, i) == SubSeq(s, i + 1, Len(s))

\* strings.Split on a one-character separator.
RECURSIVE Split(_, _)
Split(s, sep) ==
    IF IndexAny(s, {sep}) = 0 THEN <<s>>
    ELSE <<SubSeq(s, 1, IndexAny(s, {sep}) - 1)>> \o Split(After(s, IndexAny(s, {sep})), sep)

\* The value of a text of decimal digits (the texts parsed here stay below
\* 2^31, the largest number the checker holds, or are out of the range of int).
RECURSIVE natOf(_)
natOf(s) ==
    IF Len(s) = 0 THEN 0
    ELSE natOf(SubSeq(s, 1, Len(s) - 1)) * 10 + (indexIn(Digits, s[Len(s)]) - 1)

allDigits(s) == Len(s) > 0 /\ \A i \in 1..Len(s) : indexIn(Digits, s[i]) > 0

\* The digits without their leading zeros, the last digit kept.
RECURSIVE dropZeros(_)
dropZeros(s) == IF Len(s) > 1 /\ s[1] = "0" THEN dropZeros(Tail(s)) ELSE s

\* The result of Atoi for a sign and digits: the number when the text is
\* digits in the range of int (of 64 bits: the digits without leading zeros
\* are at most 9223372036854775807, for a negative number
\* 9223372036854775808), an error (with 0) otherwise.
signed(digits, negative) ==
    LET a == dropZeros(digits)
        b == <<"9", "2", "2", "3", "3", "7", "2", "0", "3", "6", "8", "5", "4", "7", "7", "5", "8", "0">>
                 \o (IF negative THEN <<"8">> ELSE <<"7">>)
        inInt == \/ Len(a) < Len(b)
                 \/ /\ Len(a) = Len(b)
                    /\ \/ a = b
                       \/ LET k == MinOf({i \in 1..Len(a) : a[i] # b[i]})
                          IN  indexIn(Digits, a[k]) < indexIn(Digits, b[k])
    IN  IF allDigits(digits) /\ inInt
        THEN [ok |-> TRUE, v |-> IF negative THEN 0 - natOf(digits) ELSE natOf(digits)]
        ELSE [ok |-> FALSE, v |-> 0]

\* strconv.Atoi: an optional sign and one or more digits.
Atoi(s) ==
    IF Len(s) > 0 /\ s[1] \in {"+", "-"} THEN signed(Tail(s), s[1] = "-") ELSE signed(s, FALSE)

\* The integers of a list of Atoi results, or the failure of one of them.
collect(rs) ==
    [ok |-> \A i \in 1..Len(rs) : rs[i].ok, v |-> [i \in 1..Len(rs) |-> rs[i].v]]

atoiEach(parts) == collect([i \in 1..Len(parts) |-> Atoi(parts[i])])

parseInts(str) == IF Len(str) = 0 THEN [ok |-> TRUE, v |-> <<>>] ELSE atoiEach(Split(str, ","))

parseMonths(str) == atoiEach(Split(str, ","))

weekdayNames ==
    <<<<"s", "u">>, <<"m", "o">>, <<"t", "u">>, <<"w", "e">>, <<"t", "h">>, <<"f", "r">>, <<"s", "a">>>>

\* parseWeekday: the weekday of a two-letter code in any letter case.
parseWeekday(str) ==
    [ok |-> indexIn(weekdayNames, ToLower(str)) > 0, v |-> indexIn(weekdayNames, ToLower(str)) - 1]

\* The length of the sign and digits that start p.  (A digit outside ASCII,
\* which unicode.IsDigit also takes, is an error either way: of Atoi in the
\* code, of parseWeekday here.)
RECURSIVE digitsEnd(_, _)
digitsEnd(p, idx) ==
    IF idx < Len(p) /\ indexIn(Digits, p[idx + 1]) > 0 THEN digitsEnd(p, idx + 1) ELSE idx

ordinalEnd(p) == digitsEnd(p, IF p[1] \in {"-", "+"} THEN 1 ELSE 0)

qualified(digit, wd) == [ok |-> digit.ok /\ wd.ok, v |-> [N |-> digit.v, WD |-> wd.v]]

\* One member of a BYDAY list: an optional signed ordinal and a weekday.
parseQualifiedWeekday(p, idx) ==
    qualified(IF idx > 0 THEN Atoi(SubSeq(p, 1, idx)) ELSE [ok |-> TRUE, v |-> 0],
              parseWeekday(After(p, idx)))

qualifiedEach(parts) ==
    collect([i \in 1..Len(parts) |->
                IF Len(parts[i]) = 0 THEN [ok |-> FALSE, v |-> [N |-> 0, WD |-> 0]]
                ELSE parseQualifiedWeekday(parts[i], ordinalEnd(parts[i]))])

parseQualifiedWeekdays(str) == qualifiedEach(Split(str, ","))

frequencyNames ==
    <<<<"s", "e", "c", "o", "n", "d", "l", "y">>,
      <<"m", "i", "n", "u", "t", "e", "l", "y">>,
      <<"h", "o", "u", "r", "l", "y">>,
      <<"d", "a", "i", "l", "y">>,
      <<"w", "e", "e", "k", "l", "y">>,
      <<"m", "o", "n", "t", "h", "l", "y">>,
      <<"y", "e", "a", "r", "l", "y">>>>

frequencyValues == <<Secondly, Minutely, Hourly, Daily, Weekly, Monthly, Yearly>>

\* strToFreq: the frequency of its name in any letter case.
strToFreq(str) ==
    [ok |-> indexIn(frequencyNames, ToLower(str)) > 0,
     v  |-> IF indexIn(frequencyNames, ToLower(str)) > 0
            THEN frequencyValues[indexIn(frequencyNames, ToLower(str))] ELSE Yearly]

\* The instant of the digits YYYYMMDDTHHMMSS.
timeOf(v) ==
    Date(natOf(SubSeq(v, 1, 4)), natOf(SubSeq(v, 5, 6)), natOf(SubSeq(v, 7, 8)),
         natOf(SubSeq(v, 10, 11)), natOf(SubSeq(v, 12, 13)), natOf(SubSeq(v, 14, 15)))

\* A time value is YYYYMMDDTHHMMSS, floating, or the same followed by Z, UTC.
timeValue(v) ==
    [ok |-> /\ Len(v) \in {15, 16}
            /\ \A i \in 1..15 : IF i = 9 THEN v[i] = "T" ELSE indexIn(Digits, v[i]) > 0
            /\ Len(v) = 16 => v[16] = "Z",
     floating |-> Len(v) = 15,
     v |-> IF Len(v) >= 15 /\ allDigits(SubSeq(v, 1, 8) \o SubSeq(v, 10, 15)) THEN timeOf(v) ELSE 0]

\* The last position of s holding one of chars, 0 when there is none.
LastIndexAny(s, chars) ==
    IF \E i \in 1..Len(s) : s[i] \in chars
    THEN CHOOSE i \in 1..Len(s) : s[i] \in chars /\ \A j \in (i + 1)..Len(s) : s[j] \notin chars
    ELSE 0

\* parseTime: the time value of a property line or rule segment, which
\* follows its last ':' or '='.
parseTime(str) == timeValue(After(str, LastIndexAny(str, {":", "="})))

\* bufio.MaxScanTokenSize: the size of the buffer a Scanner reads into.
MaxScanTokenSize == 65536

\* The tokens the Scanner of ParseRRule delivers: the segments between ';',
\* none for an empty rest at the end of the input.  A segment that does not
\* fit the buffer with its ';', or that fills the buffer without one, ends
\* the scan (ErrTooLong), which ParseRRule does not look at.
RECURSIVE scanSegments(_)
scanSegments(data) ==
    IF Len(data) = 0 THEN <<>>
    ELSE IF IndexAny(data, {";"}) > MaxScanTokenSize THEN <<>>
    ELSE IF IndexAny(data, {";"}) > 0
         THEN <<SubSeq(data, 1, IndexAny(data, {";"}) - 1)>>
                 \o scanSegments(After(data, IndexAny(data, {";"})))
    ELSE IF Len(data) >= MaxScanTokenSize THEN <<>>
    ELSE <<data>>

\* The errors of ParseRRule, by the message they carry.
NoError == "none"

ErrSegment == "rrule segment is invalid"

ErrUnsupported == "not a supported RRULE part"

ErrValue == "invalid value"

ErrValidate == "validation"

keyNames ==
    <<<<"F", "R", "E", "Q">>,
      <<"U", "N", "T", "I", "L">>,
      <<"C", "O", "U", "N", "T">>,
      <<"I", "N", "T", "E", "R", "V", "A", "L">>,
      <<"B", "Y", "S", "E", "C", "O", "N", "D">>,
      <<"B", "Y", "M", "I", "N", "U", "T", "E">>,
      <<"B", "Y", "H", "O", "U", "R">>,
      <<"B", "Y", "D", "A", "Y">>,
      <<"B", "Y", "M", "O", "N", "T", "H", "D", "A", "Y">>,
      <<"B", "Y", "Y", "E", "A", "R", "D", "A", "Y">>,
      <<"B", "Y", "W", "E", "E", "K", "N", "O">>,
      <<"B", "Y", "M", "O", "N", "T", "H">>,
      <<"B", "Y", "S", "E", "T", "P", "O", "S">>,
      <<"W", "K", "S", "T">>>>

\* The RRule with no field set, and no frequency.
NoFrequency == "NoFrequency"

\* The rule and error after a value parser returned p and, when it succeeded,
\* set the rule to r.
valued(rule, p, r) == IF p.ok THEN [rule |-> r, err |-> NoError] ELSE [rule |-> rule, err |-> ErrValue]

setFreq(rule, p) == valued(rule, p, [rule EXCEPT !.freq = p.v])

setUntil(rule, p) ==
    valued(rule, p, [rule EXCEPT !.untilSet = TRUE, !.until = p.v, !.untilFloating = p.floating])

setField(rule, field, p) == valued(rule, p, [rule EXCEPT ![field] = p.v])

\* The case of the switch the directive selects: the place of its upper-case
\* form among the supported keys, 0 for the default case.
directiveKey(directive) == indexIn(keyNames, ToUpper(directive))

\* The switch on the directive.
parsePart(rule, key, value, wholeComponent) ==
    CASE key = 1 -> setFreq(rule, strToFreq(value))
      [] key = 2 -> setUntil(rule, parseTime(wholeComponent))
      [] key = 3 -> valued(rule, Atoi(value), [rule EXCEPT !.count = Uint64(Atoi(value).v)])
      [] key = 4 -> setField(rule, "interval", Atoi(value))
      [] key = 5 -> setField(rule, "bySeconds", parseInts(value))
      [] key = 6 -> setField(rule, "byMinutes", parseInts(value))
      [] key = 7 -> setField(rule, "byHours", parseInts(value))
      [] key = 8 -> setField(rule, "byWeekdays", parseQualifiedWeekdays(value))
      [] key = 9 -> setField(rule, "byMonthDays", parseInts(value))
      [] key = 10 -> setField(rule, "byYearDays", parseInts(value))
      [] key = 11 -> setField(rule, "byWeekNumbers", parseInts(value))
      [] key = 12 -> setField(rule, "byMonths", parseMonths(value))
      [] key = 13 -> setField(rule, "bySetPos", parseInts(value))
      [] key = 14 -> setField(rule, "weekStart", parseWeekday(value))
      [] OTHER -> [rule |-> rule, err |-> ErrUnsupported]

\* One round of the loop of ParseRRule: strings.SplitN(wholeComponent, "=", 2)
\* and the switch.
parseComponent(rule, wholeComponent, eq) ==
    IF eq = 0 THEN [rule |-> rule, err |-> ErrSegment]
    ELSE parsePart(rule, directiveKey(SubSeq(wholeComponent, 1, eq - 1)),
                   After(wholeComponent, eq), wholeComponent)

\* The loop of ParseRRule over the tokens from the i-th on; it returns at the
\* first error.
RECURSIVE parseComponents(_, _, _)
parseComponents(state, tokens, i) ==
    IF i > Len(tokens) \/ state.err # NoError THEN state
    ELSE parseComponents(parseComponent(state.rule, tokens[i], IndexAny(tokens[i], {"="})),
                         tokens, i + 1)

inRange(list, lo, hi) == \A i \in 1..Len(list) : list[i] # 0 /\ list[i] >= lo /\ list[i] <= hi

\* Validate: the rule is rejected for a negative interval (0 stands for the
\* default), count together with until, bySetPos without another BY-part,
\* byWeekNumbers on a frequency other than Yearly, or a BY value out of
\* range.
Validate(r) ==
    /\ r.interval >= 0
    /\ ~(countOf(r) > 0 /\ r.untilSet)
    /\ Len(r.bySetPos) > 0 =>
          Len(r.bySeconds) + Len(r.byMinutes) + Len(r.byHours) + Len(r.byWeekdays)
            + Len(r.byMonthDays) + Len(r.byYearDays) + Len(r.byWeekNumbers) + Len(r.byMonths) > 0
    /\ Len(r.byWeekNumbers) > 0 => r.freq = Yearly
    /\ \A i \in 1..Len(r.bySeconds) : r.bySeconds[i] \in 0..60
    /\ \A i \in 1..Len(r.byMinutes) : r.byMinutes[i] \in 0..59
    /\ \A i \in 1..Len(r.byHours) : r.byHours[i] \in 0..23
    /\ \A i \in 1..Len(r.byMonths) : r.byMonths[i] \in 1..12
    /\ inRange(r.byMonthDays, -31, 31)
    /\ inRange(r.byYearDays, -366, 366)
    /\ inRange(r.byWeekNumbers, -53, 53)
    /\ inRange(r.bySetPos, -366, 366)

validated(state) ==
    IF state.err = NoError /\ ~Validate(state.rule) THEN [state EXCEPT !.err = ErrValidate]
    ELSE state

\* ParseRRule: the rule and the error it returns for the text str.
ParseRRule(str) ==
    validated(parseComponents([rule |-> ZeroRule(NoFrequency), err |-> NoError],
                              scanSegments(str), 1))

\* The RRule as setDtstart leaves it in a recurrence: anchored at dtstart.
anchored(rules, dtstart) == [i \in 1..Len(rules) |-> [rule |-> rules[i], dtstart |-> dtstart]]

\* setDtstart: every rule of the recurrence gets the recurrence's dtstart.
setDtstart(r) ==
    [r EXCEPT !.rrules = anchored(r.rrules, r.dtstart), !.exrules = anchored(r.exrules, r.dtstart)]

\* The Recurrence with no field set.
ZeroRecurrence ==
    [dtstartSet |-> FALSE, dtstart |-> 0, floating |-> FALSE,
     rrules |-> <<>>, exrules |-> <<>>, rdates |-> <<>>, exdates |-> <<>>]

\* bufio.ScanLines drops one trailing carriage return of a line.
dropCR(line) ==
    IF Len(line) > 0 /\ line[Len(line)] = "\r" THEN SubSeq(line, 1, Len(line) - 1) ELSE line

\* The tokens the Scanner of ParseRecurrence delivers: the lines, none for an
\* empty rest at the end of the input.  A line that does not fit the buffer
\* with its newline, or that fills the buffer without one, ends the scan
\* (ErrTooLong), which ParseRecurrence does not look at.
RECURSIVE scanLines(_)
scanLines(data) ==
    IF Len(data) = 0 THEN <<>>
    ELSE IF IndexAny(data, {"\n"}) > MaxScanTokenSize THEN <<>>
    ELSE IF IndexAny(data, {"\n"}) > 0
         THEN <<dropCR(SubSeq(data, 1, IndexAny(data, {"\n"}) - 1))>>
                 \o scanLines(After(data, IndexAny(data, {"\n"})))
    ELSE IF Len(data) >= MaxScanTokenSize THEN <<>>
    ELSE <<dropCR(data)>>

ErrMisformatted == "misformatted line"

propertyNames ==
    <<<<"D", "T", "S", "T", "A", "R", "T">>, <<"R", "R", "U", "L", "E">>, <<"E", "X", "R", "U", "L", "E">>, <<"R", "D", "A", "T", "E">>, <<"E", "X", "D", "A", "T", "E">>>>

\* The line has no ':' or ';', or its first one is its last character
\* (colonIdx is 1-based, 0 for none).
misformatted(text, colonIdx) == colonIdx = 0 \/ Len(text) = colonIdx

\* The recurrence after a time parser returned p and, when it succeeded, set
\* the recurrence to r.
timed(state, p, r) ==
    IF p.ok THEN [rec |-> r, err |-> NoError] ELSE [rec |-> state.rec, err |-> ErrValue]

\* The recurrence after ParseRRule returned p, appended to field on success.
ruled(state, field, p) ==
    IF p.err = NoError THEN [rec |-> [state.rec EXCEPT ![field] = Append(@, p.rule)], err |-> NoError]
    ELSE [rec |-> state.rec, err |-> p.err]

setAnchor(state, p) ==
    timed(state, p, [state.rec EXCEPT !.dtstartSet = TRUE, !.dtstart = p.v, !.floating = p.floating])

addDate(state, field, p) == timed(state, p, [state.rec EXCEPT ![field] = Append(@, p.v)])

\* The switch on the property name; a name it does not list changes nothing.
parseProperty(state, prop, propVal, text) ==
    CASE prop = 1 -> setAnchor(state, parseTime(text))
      [] prop = 2 -> ruled(state, "rrules", ParseRRule(propVal))
      [] prop = 3 -> ruled(state, "exrules", ParseRRule(propVal))
      [] prop = 4 -> addDate(state, "rdates", parseTime(propVal))
      [] prop = 5 -> addDate(state, "exdates", parseTime(propVal))
      [] OTHER -> state

\* One round of the loop of ParseRecurrence.
parseLine(state, text, colonIdx) ==
    IF misformatted(text, colonIdx) THEN [rec |-> state.rec, err |-> ErrMisformatted]
    ELSE parseProperty(state, indexIn(propertyNames, SubSeq(text, 1, colonIdx - 1)),
                       After(text, colonIdx), text)

\* The loop of ParseRecurrence over the lines from the i-th on; it returns at
\* the first error.
RECURSIVE parseLines(_, _, _)
parseLines(state, lines, i) ==
    IF i > Len(lines) \/ state.err # NoError THEN state
    ELSE parseLines(parseLine(state, lines[i], IndexAny(lines[i], {":", ";"})), lines, i + 1)

\* What ParseRecurrence returns: nil and the error, or the recurrence after
\* setDtstart.
returned(state) ==
    IF state.err # NoError THEN [rec |-> ZeroRecurrence, err |-> state.err]
    ELSE [rec |-> setDtstart(state.rec), err |-> NoError]

\* ParseRecurrence: the recurrence and the error it returns for the text src.
ParseRecurrence(src) ==
    returned(parseLines([rec |-> ZeroRecurrence, err |-> NoError], scanLines(src), 1))

----------------------------------------------------------------------------
(* The parsers run on texts *)

\* A piece of input: a text followed by pad filler characters.
Piece(p) == p.text \o [i \in 1..p.pad |-> "X"]

\* The pieces joined by the separator sep.
RECURSIVE Join(_, _)
Join(pieces, sep) ==
    IF Len(pieces) = 0 THEN <<>>
    ELSE IF Len(pieces) = 1 THEN Piece(pieces[1])
    ELSE Piece(pieces[1]) \o <<sep>> \o Join(Tail(pieces), sep)

\* The lines, each ended by a newline, the last one only when eol holds.
LinesText(lines, eol) == IF eol /\ Len(lines) > 0 THEN Join(lines, "\n") \o <<"\n">> ELSE Join(lines, "\n")

\* The most segments of a rule text and the most lines of a recurrence text.
MaxSegments == 2

MaxLines == 2

\* The sequences of at most n pieces, the first from first and the others
\* from more.
RECURSIVE Inputs(_, _, _)
Inputs(first, more, n) ==
    IF n <= 1 THEN {<<p>> : p \in first}
    ELSE Inputs(first, more, n - 1)
           \cup {Append(s, p) : s \in Inputs(first, more, n - 1), p \in more}

FirstSegments ==
    {[text |-> <<"F", "R", "E", "Q", "=", "D", "A", "I", "L", "Y">>, pad |-> 0],
     [text |-> <<"f", "r", "e", "q", "=", "w", "e", "e", "k", "l", "y">>, pad |-> 0],
     [text |-> <<"F", "r", "e", "q", "=", "Y", "e", "a", "r", "l", "y">>, pad |-> 0],
     [text |-> <<"C", "O", "U", "N", "T", "=", "3">>, pad |-> 0],
     [text |-> <<"I", "N", "T", "E", "R", "V", "A", "L", "=", "2">>, pad |-> 0],
     [text |-> <<"b", "y", "s", "e", "c", "o", "n", "d", "=", "1", ",", "2">>, pad |-> 0],
     [text |-> <<"B", "y", "M", "i", "n", "u", "t", "e", "=", "3", "0">>, pad |-> 0],
     [text |-> <<"B", "Y", "H", "O", "U", "R", "=", "9", ",", "1", "3">>, pad |-> 0],
     [text |-> <<"b", "y", "d", "a", "y", "=", "M", "O", ",", "-", "1", "f", "r">>, pad |-> 0],
     [text |-> <<"B", "Y", "M", "O", "N", "T", "H", "D", "A", "Y", "=", "-", "1", ",", "1", "5">>, pad |-> 0],
     [text |-> <<"b", "y", "y", "e", "a", "r", "d", "a", "y", "=", "1", "0", "0">>, pad |-> 0],
     [text |-> <<"B", "y", "W", "e", "e", "k", "N", "o", "=", "2", "0">>, pad |-> 0],
     [text |-> <<"b", "y", "m", "o", "n", "t", "h", "=", "2", ",", "8">>, pad |-> 0],
     [text |-> <<"b", "y", "S", "e", "t", "P", "o", "s", "=", "1", ",", "-", "1">>, pad |-> 0],
     [text |-> <<"w", "k", "s", "t", "=", "s", "u">>, pad |-> 0],
     [text |-> <<"u", "n", "t", "i", "l", "=", "2", "0", "1", "8", "0", "8", "3", "0", "T", "0", "0", "0", "0", "0", "0", "Z">>, pad |-> 0],
     [text |-> <<"U", "N", "T", "I", "L", "=", "2", "0", "1", "8", "0", "8", "3", "0", "T", "0", "0", "0", "0", "0", "0">>, pad |-> 0],
     [text |-> <<"F", "R", "E", "Q", "=", "o", "f", "t", "e", "n">>, pad |-> 0],
     [text |-> <<"C", "O", "U", "N", "T", "=", "x">>, pad |-> 0],
     [text |-> <<"B", "Y", "D", "A", "Y", "=", "X", "X">>, pad |-> 0],
     [text |-> <<"B", "Y", "M", "O", "N", "T", "H", "=">>, pad |-> 0],
     [text |-> <<"F", "O", "O", "=", "1">>, pad |-> 0],
     [text |-> <<"F", "R", "E", "Q">>, pad |-> 0],
     [text |-> <<>>, pad |-> 0],
     [text |-> <<"=", "1">>, pad |-> 0],
     [text |-> <<"F", "R", "E", "Q", "S", "=", "D", "A", "I", "L", "Y">>, pad |-> 0],
     [text |-> <<"X", "-", "K", "E", "Y", "=", "1">>, pad |-> 0],
     [text |-> <<"B", "Y", "0xC5", "0xBF", "E", "C", "O", "N", "D", "=", "1">>, pad |-> 0],
     [text |-> <<"u", "n", "t", "0xC4", "0xB1", "l", "=", "2", "0", "1", "8", "0", "8", "3", "0", "T", "0", "0", "0", "0", "0", "0", "Z">>, pad |-> 0],
     [text |-> <<"F", "R", "E", "Q", "=", "W", "E", "E", "0xE2", "0x84", "0xAA", "L", "Y">>, pad |-> 0],
     [text |-> <<"f", "r", "e", "q", "=", "D", "A", "0xC4", "0xB0", "L", "Y">>, pad |-> 0],
     [text |-> <<"W", "0xE2", "0x84", "0xAA", "S", "T", "=", "M", "O">>, pad |-> 0],
     [text |-> <<"C", "O", "U", "N", "T", "=", "-", "1">>, pad |-> 0],
     [text |-> <<"C", "O", "U", "N", "T", "=", "+", "2">>, pad |-> 0],
     [text |-> <<"C", "O", "U", "N", "T", "=", "9", "9", "9", "9", "9", "9", "9", "9", "9", "9", "9", "9", "9", "9", "9", "9", "9", "9", "9", "9">>, pad |-> 0],
     [text |-> <<"C", "O", "U", "N", "T", "=", "-", "9", "2", "2", "3", "3", "7", "2", "0", "3", "6", "8", "5", "4", "7", "7", "5", "8", "0", "9">>, pad |-> 0],
     [text |-> <<"B", "Y", "S", "E", "C", "O", "N", "D", "=", "1", ",", "9", "9", "9", "9", "9", "9", "9", "9", "9", "9", "9", "9", "9", "9", "9", "9", "9", "9", "9", "9">>, pad |-> 0],
     [text |-> <<"B", "Y", "D", "A", "Y", "=", "9", "9", "9", "9", "9", "9", "9", "9", "9", "9", "9", "9", "9", "9", "9", "9", "9", "9", "9", "9", "M", "O">>, pad |-> 0],
     [text |-> <<"I", "N", "T", "E", "R", "V", "A", "L", "=", "0", "0", "0", "2">>, pad |-> 0]}

MoreSegments ==
    {[text |-> <<"c", "o", "u", "n", "t", "=", "2">>, pad |-> 0],
     [text |-> <<"F", "O", "O", "=", "1">>, pad |-> 0],
     [text |-> <<"F", "R", "E", "Q">>, pad |-> 0],
     [text |-> <<>>, pad |-> 0],
     [text |-> <<"b", "y", "m", "o", "n", "t", "h", "=", "2", ",", "8">>, pad |-> 0],
     [text |-> <<"F", "r", "e", "q", "=", "Y", "e", "a", "r", "l", "y">>, pad |-> 0],
     [text |-> <<"u", "n", "t", "i", "l", "=", "2", "0", "1", "8", "0", "8", "3", "0", "T", "0", "0", "0", "0", "0", "0", "Z">>, pad |-> 0]}

\* Rule texts with a segment at and just under the size of the Scanner's
\* buffer.
LongRules ==
    {<<[text |-> <<"F", "R", "E", "Q", "=", "D", "A", "I", "L", "Y">>, pad |-> 0], [text |-> <<>>, pad |-> MaxScanTokenSize]>>,
     <<[text |-> <<"F", "R", "E", "Q", "=", "D", "A", "I", "L", "Y">>, pad |-> 0], [text |-> <<>>, pad |-> MaxScanTokenSize - 1]>>,
     <<[text |-> <<"f", "r", "e", "q", "=", "d", "a", "i", "l", "y">>, pad |-> 0], [text |-> <<"F", "O", "O", "=">>, pad |-> MaxScanTokenSize - 4], [text |-> <<"C", "O", "U", "N", "T", "=", "3">>, pad |-> 0]>>,
     <<[text |-> <<"F", "R", "E", "Q", "=", "D", "A", "I", "L", "Y">>, pad |-> 0], [text |-> <<"F", "O", "O", "=">>, pad |-> MaxScanTokenSize - 5], [text |-> <<"C", "O", "U", "N", "T", "=", "3">>, pad |-> 0]>>,
     <<[text |-> <<"F", "R", "E", "Q", "=", "D", "A", "I", "L", "Y">>, pad |-> 0], [text |-> <<"C", "O", "U", "N", "T", "=", "3">>, pad |-> MaxScanTokenSize], [text |-> <<"F", "O", "O", "=", "1">>, pad |-> 0]>>}

RuleInputs == Inputs(FirstSegments, MoreSegments, MaxSegments) \cup LongRules

RuleInit ==
    /\ prs \in {[pc |-> "ready", src |-> src, res |-> [rule |-> ZeroRule(NoFrequency), err |-> NoError]] :
                   src \in RuleInputs}
    /\ gen = Idle /\ iters = 0 /\ comb = Idle /\ rec = Idle /\ mexp = Idle

RuleParse ==
    /\ prs.pc = "ready"
    /\ prs' = [prs EXCEPT !.pc = "done", !.res = ParseRRule(Join(prs.src, ";"))]
    /\ UNCHANGED <<gen, iters, comb, rec, mexp>>

RuleNext == RuleParse

SpecRule == RuleInit /\ [][RuleNext]_vars

FirstLines ==
    {[text |-> <<"D", "T", "S", "T", "A", "R", "T", ":", "2", "0", "1", "8", "0", "8", "2", "5", "T", "0", "9", "0", "8", "0", "7", "Z">>, pad |-> 0],
     [text |-> <<"D", "T", "S", "T", "A", "R", "T", ";", "T", "Z", "I", "D", "=", "A", "m", "e", "r", "i", "c", "a", "/", "N", "e", "w", "_", "Y", "o", "r", "k", ":", "2", "0", "1", "8", "0", "8", "2", "5", "T", "0", "9", "0", "8", "0", "7">>, pad |-> 0],
     [text |-> <<"R", "R", "U", "L", "E", ":", "F", "R", "E", "Q", "=", "D", "A", "I", "L", "Y", ";", "C", "O", "U", "N", "T", "=", "3">>, pad |-> 0],
     [text |-> <<"R", "R", "U", "L", "E", ":", "f", "r", "e", "q", "=", "w", "e", "e", "k", "l", "y">>, pad |-> 0],
     [text |-> <<"E", "X", "R", "U", "L", "E", ":", "F", "R", "E", "Q", "=", "W", "E", "E", "K", "L", "Y">>, pad |-> 0],
     [text |-> <<"R", "D", "A", "T", "E", ":", "2", "0", "1", "8", "0", "8", "2", "6", "T", "0", "9", "0", "8", "0", "7", "Z">>, pad |-> 0],
     [text |-> <<"E", "X", "D", "A", "T", "E", ":", "2", "0", "1", "8", "0", "8", "2", "7", "T", "0", "9", "0", "8", "0", "7", "Z">>, pad |-> 0],
     [text |-> <<"R", "R", "U", "L", "E", ":", "F", "O", "O", "=", "1">>, pad |-> 0],
     [text |-> <<"R", "D", "A", "T", "E", ":", "n", "o", "n", "s", "e", "n", "s", "e">>, pad |-> 0],
     [text |-> <<"S", "U", "M", "M", "A", "R", "Y", ":", "L", "u", "n", "c", "h">>, pad |-> 0],
     [text |-> <<"R", "R", "U", "L", "E", ":", "B", "Y", "0xC5", "0xBF", "E", "C", "O", "N", "D", "=", "1", ";", "C", "O", "U", "N", "T", "=", "-", "1">>, pad |-> 0],
     [text |-> <<"r", "r", "u", "l", "e", ":", "F", "R", "E", "Q", "=", "D", "A", "I", "L", "Y">>, pad |-> 0],
     [text |-> <<"X", "-", "F", "O", "O", ";", "A", "=", "B", ":", "1">>, pad |-> 0],
     [text |-> <<"D", "T", "S", "T", "A", "R", "T", "S", ":", "2", "0", "1", "8", "0", "8", "2", "5", "T", "0", "9", "0", "8", "0", "7", "Z">>, pad |-> 0],
     [text |-> <<"B", "E", "G", "I", "N", ":", "V", "E", "V", "E", "N", "T">>, pad |-> 0],
     [text |-> <<"S", "U", "M", "M", "A", "R", "Y", ":", "L", "u", "n", "c", "h", "\r">>, pad |-> 0],
     [text |-> <<":", "x">>, pad |-> 0],
     [text |-> <<"S", "U", "M", "M", "A", "R", "Y", ":">>, pad |-> 0],
     [text |-> <<"F", "O", "O">>, pad |-> 0],
     [text |-> <<>>, pad |-> 0],
     [text |-> <<"E", "N", "D", ";">>, pad |-> 0],
     [text |-> <<":">>, pad |-> 0],
     [text |-> <<"X", ":", "\r">>, pad |-> 0]}

MoreLines ==
    {[text |-> <<"R", "R", "U", "L", "E", ":", "F", "R", "E", "Q", "=", "D", "A", "I", "L", "Y", ";", "C", "O", "U", "N", "T", "=", "3">>, pad |-> 0],
     [text |-> <<"S", "U", "M", "M", "A", "R", "Y", ":", "L", "u", "n", "c", "h">>, pad |-> 0],
     [text |-> <<"F", "O", "O">>, pad |-> 0],
     [text |-> <<"r", "d", "a", "t", "e", ":", "2", "0", "1", "8", "0", "8", "2", "6", "T", "0", "9", "0", "8", "0", "7", "Z">>, pad |-> 0],
     [text |-> <<"E", "X", "D", "A", "T", "E", ":", "2", "0", "1", "8", "0", "8", "2", "7", "T", "0", "9", "0", "8", "0", "7", "Z">>, pad |-> 0],
     [text |-> <<>>, pad |-> 0]}

\* Recurrence texts with a line at and just under the size of the Scanner's
\* buffer.
LongRecurrences ==
    {<<[text |-> <<"D", "T", "S", "T", "A", "R", "T", ":", "2", "0", "1", "8", "0", "8", "2", "5", "T", "0", "9", "0", "8", "0", "7", "Z">>, pad |-> 0], [text |-> <<"X", ":">>, pad |-> MaxScanTokenSize - 2], [text |-> <<"R", "R", "U", "L", "E", ":", "F", "R", "E", "Q", "=", "D", "A", "I", "L", "Y", ";", "C", "O", "U", "N", "T", "=", "3">>, pad |-> 0]>>,
     <<[text |-> <<"D", "T", "S", "T", "A", "R", "T", ":", "2", "0", "1", "8", "0", "8", "2", "5", "T", "0", "9", "0", "8", "0", "7", "Z">>, pad |-> 0], [text |-> <<"X", ":">>, pad |-> MaxScanTokenSize - 3], [text |-> <<"R", "R", "U", "L", "E", ":", "F", "R", "E", "Q", "=", "D", "A", "I", "L", "Y", ";", "C", "O", "U", "N", "T", "=", "3">>, pad |-> 0]>>,
     <<[text |-> <<"R", "R", "U", "L", "E", ":", "F", "R", "E", "Q", "=", "D", "A", "I", "L", "Y">>, pad |-> 0], [text |-> <<"S", "U", "M", "M", "A", "R", "Y", ":">>, pad |-> MaxScanTokenSize]>>}

RecurrenceInputs == Inputs(FirstLines, MoreLines, MaxLines) \cup LongRecurrences

RecurrenceInit ==
    /\ rec \in {r \in [pc : {"ready"}, src : RecurrenceInputs, eol : BOOLEAN,
                            res : {[rec |-> ZeroRecurrence, err |-> NoError]}] :
                   r.eol \/ Len(Piece(r.src[Len(r.src)])) > 0}
    /\ gen = Idle /\ iters = 0 /\ comb = Idle /\ prs = Idle /\ mexp = Idle

RecurrenceParse ==
    /\ rec.pc = "ready"
    /\ rec' = [rec EXCEPT !.pc = "done", !.res = ParseRecurrence(LinesText(rec.src, rec.eol))]
    /\ UNCHANGED <<gen, iters, comb, prs, mexp>>

RecurrenceNext == RecurrenceParse

SpecRecurrence == RecurrenceInit /\ [][RecurrenceNext]_vars

\* The key of a segment in upper case, the rest as it is.
C8_UpperKey(seg) ==
    IF IndexAny(seg, {"="}) = 0 THEN seg
    ELSE ToUpper(SubSeq(seg, 1, IndexAny(seg, {"="}) - 1)) \o SubSeq(seg, IndexAny(seg, {"="}), Len(seg))

\* The rule text with every key in upper case.
C8_UpperKeys(src) == [i \in 1..Len(src) |-> [text |-> C8_UpperKey(src[i].text), pad |-> src[i].pad]]

\* The segment has no '=', or its key is none of the supported keys in any
\* letter case.
C8_Unknown(p) ==
    \/ IndexAny(p.text, {"="}) = 0
    \/ \A k \in 1..Len(keyNames) :
          ToUpper(SubSeq(p.text, 1, IndexAny(p.text, {"="}) - 1)) # keyNames[k]

\* The segments of the rule text: an empty rest after the last ';' is none.
C8_Segments(src) ==
    IF Len(src) > 0 /\ Len(src[Len(src)].text) + src[Len(src)].pad = 0
    THEN SubSeq(src, 1, Len(src) - 1) ELSE src

\* The segments before the first one of MaxScanTokenSize characters or more.
C8_Read(segs) ==
    SubSeq(segs, 1, MinOf({i \in 1..(Len(segs) + 1) :
                              i = Len(segs) + 1 \/ Len(segs[i].text) + segs[i].pad >= MaxScanTokenSize}) - 1)

\* The statement about the segments segs of the parsed rule text: the result
\* is that of the text with upper-case keys; an unknown key or a segment
\* without '=' gives an error; without one, no segment or key is rejected.
C8_Stated(segs) ==
    /\ prs.res = ParseRRule(Join(C8_UpperKeys(prs.src), ";"))
    /\ (\E i \in 1..Len(segs) : C8_Unknown(segs[i])) => prs.res.err # NoError
    /\ (\A i \in 1..Len(segs) : ~C8_Unknown(segs[i])) => prs.res.err \notin {ErrSegment, ErrUnsupported}

\* C8 as stated: rule keys are case-insensitive, each supported key in any
\* letter case is accepted and sets the same field as its upper-case form, and
\* for every semicolon-separated segment any other key, or a segment with no
\* '=', makes ParseRRule return an error.
C8_EverySegment == prs.pc = "done" => C8_Stated(C8_Segments(prs.src))

\* What holds of C8: the same for every segment the Scanner delivers, which
\* are the segments before the first one of MaxScanTokenSize characters or
\* more; at that segment ParseRRule stops reading and reports nothing.
C8_SegmentsRead == prs.pc = "done" => C8_Stated(C8_Read(C8_Segments(prs.src)))

\* The name of a line: what precedes its first ':' or ';', the whole line
\* when it has neither.
C9_Name(text) ==
    IF IndexAny(text, {":", ";"}) = 0 THEN text ELSE SubSeq(text, 1, IndexAny(text, {":", ";"}) - 1)

\* The line's property name is none of DTSTART, RRULE, EXRULE, RDATE, EXDATE.
C9_UnknownName(p) == \A k \in 1..Len(propertyNames) : C9_Name(p.text) # propertyNames[k]

\* The line, without a trailing carriage return, has a ':' or ';' that is not
\* its last character.
C9_HasValue(text) == IndexAny(text, {":", ";"}) \in 1..(Len(text) - 1)

\* The input without its i-th line.
C9_Without(src, i) == SubSeq(src, 1, i - 1) \o SubSeq(src, i + 1, Len(src))

\* The result is the one for the input without its i-th line.
C9_Ignored(i) ==
    rec.res = ParseRecurrence(LinesText(C9_Without(rec.src, i), rec.eol \/ i = Len(rec.src)))

\* C9 as stated: a line whose property name is not one of DTSTART, RRULE,
\* EXRULE, RDATE, EXDATE never causes an error, and the recurrence returned is
\* the same as for the input with that line removed.
C9_UnknownIgnored ==
    rec.pc = "done" =>
        \A i \in 1..Len(rec.src) : C9_UnknownName(rec.src[i]) => C9_Ignored(i)

\* What holds of C9: such a line is ignored when it has a ':' or ';' that is
\* not its last character and is shorter than MaxScanTokenSize; the result is
\* then the same as for the input with that line removed.
C9_WellFormedIgnored ==
    rec.pc = "done" =>
        \A i \in 1..Len(rec.src) :
            (/\ C9_UnknownName(rec.src[i])
             /\ C9_HasValue(dropCR(Piece(rec.src[i])))
             /\ Len(rec.src[i].text) + rec.src[i].pad < MaxScanTokenSize)
                => C9_Ignored(i)

====
